---- MODULE Spec2Model ----
(***************************************************************************)
(* Document extraction and merge-safety engine of the medical-records      *)
(* service: header slicing, list extraction, confidence scoring, conflict  *)
(* detection, and the document lifecycle handlers that write the patient   *)
(* chart.                                                                  *)
(*                                                                         *)
(* Representation.  A string of the program is an atomic TLA+ string; where *)
(* the code looks inside a string (toLowerCase, includes, replace) the      *)
(* operation is computed on the string's characters, given by Spell.  A     *)
(* document text is a sequence of lines; a line is a record [k, v] where k  *)
(* is the shape of the line and v its payload:                              *)
(*   "hdr"      a line consisting solely of the header text v               *)
(*   "hdrlc"    the header text v in lower case with a colon: "allergies:"  *)
(*   "hdrprose" the header text v followed by prose: "Procedures were ..."  *)
(*   "blank"    an empty line                                               *)
(*   "num"      "1. v"   (a numbered list item)                             *)
(*   "numparen" "2) v"   (a numbered list item with a parenthesis)          *)
(*   "star"     "* v"    (a bulleted list item)                             *)
(*   "dash"     "- v"    (a list item or detail with a dash)                *)
(*   "subbullet" "   - v"  (an indented detail line)                        *)
(*   "indent"   "   v"   (an indented line)                                 *)
(*   "lower"    v, a line that starts in lower case                         *)
(*   "date"     "Date of Surgery: v"                                        *)
(*   "surgeon"  "Surgeon: v"                                                *)
(*   "mrn"      "MRN: v"                                                    *)
(*   "nkda"     the word v alone: "NKDA", "nkda"                            *)
(*   "noknown"  the sentence v: "No known drug allergies"                   *)
(*   "allergic" "Patient is allergic to v"                                  *)
(*   "med"      "Patient received v for pain"  (v a known drug name)        *)
(*   "paren"    "Pain controlled (v)"                                       *)
(*   "sched"    "Scheduled v"                                               *)
(*   "prose"    any other capitalised, unindented sentence                  *)
(* Scores are integers in hundredths (0.80 is 80).                          *)
(***************************************************************************)
EXTENDS Integers, Sequences, FiniteSets, TLC

NULL == "null"

(***************************************************************************)
(* Characters and strings                                                  *)
(***************************************************************************)
UpperChars == <<"A","B","C","D","E","F","G","H","I","J","K","L","M","N","O","P","Q","R","S","T","U","V","W","X","Y","Z">>

LowerChars == <<"a","b","c","d","e","f","g","h","i","j","k","l","m","n","o","p","q","r","s","t","u","v","w","x","y","z">>

DigitChars == {"0","1","2","3","4","5","6","7","8","9"}

Range(s) == {s[i] : i \in 1..Len(s)}

\* String.prototype.toLowerCase on one character
LowerChar(c) ==
  IF \E i \in 1..26 : UpperChars[i] = c
  THEN LowerChars[CHOOSE i \in 1..26 : UpperChars[i] = c]
  ELSE c

ToLower(cs) == [i \in 1..Len(cs) |-> LowerChar(cs[i])]

\* String.prototype.includes
Includes(hay, needle) ==
  \E i \in 0..(Len(hay) - Len(needle)) : SubSeq(hay, i + 1, i + Len(needle)) = needle

RECURSIVE SelectChars(_, _)
SelectChars(cs, keep) ==
  IF cs = <<>> THEN <<>>
  ELSE IF Head(cs) \in keep THEN <<Head(cs)>> \o SelectChars(Tail(cs), keep)
  ELSE SelectChars(Tail(cs), keep)

\* str.replace(/\D/g, '')
StripNonDigits(cs) == SelectChars(cs, DigitChars)

\* str.replace(/[^a-z0-9]/g, '_')
Underscore(cs) ==
  [i \in 1..Len(cs) |-> IF cs[i] \in Range(LowerChars) \cup DigitChars THEN cs[i] ELSE "_"]

(***************************************************************************)
(* The header vocabulary and the spelling of every string the model uses   *)
(***************************************************************************)
HEADERS ==
  << "Preoperative Diagnoses",
     "Preoperative Diagnosis",
     "Pre-Operative Diagnoses",
     "Pre-Operative Diagnosis",
     "Postoperative Diagnoses",
     "Postoperative Diagnosis",
     "Post-Operative Diagnoses",
     "Post-Operative Diagnosis",
     "Procedures Performed",
     "Procedure Performed",
     "Procedures",
     "Anesthesia",
     "Indication for Surgery",
     "Indications for Surgery",
     "Operative Findings",
     "Postoperative Course",
     "Post-Operative Course",
     "Functional Limitations",
     "Discharge Plan",
     "Discharge Instructions",
     "Prognosis",
     "Physician Signature",
     "Attending Physician",
     "Follow-Up",
     "Medications",
     "Current Medications",
     "Allergies",
     "Known Allergies" >>

Spell ==
  ("Preoperative Diagnoses" :> <<"P","r","e","o","p","e","r","a","t","i","v","e"," ","D","i","a","g","n","o","s","e","s">>) @@
  ("Preoperative Diagnosis" :> <<"P","r","e","o","p","e","r","a","t","i","v","e"," ","D","i","a","g","n","o","s","i","s">>) @@
  ("Pre-Operative Diagnoses" :> <<"P","r","e","-","O","p","e","r","a","t","i","v","e"," ","D","i","a","g","n","o","s","e","s">>) @@
  ("Pre-Operative Diagnosis" :> <<"P","r","e","-","O","p","e","r","a","t","i","v","e"," ","D","i","a","g","n","o","s","i","s">>) @@
  ("Postoperative Diagnoses" :> <<"P","o","s","t","o","p","e","r","a","t","i","v","e"," ","D","i","a","g","n","o","s","e","s">>) @@
  ("Postoperative Diagnosis" :> <<"P","o","s","t","o","p","e","r","a","t","i","v","e"," ","D","i","a","g","n","o","s","i","s">>) @@
  ("Post-Operative Diagnoses" :> <<"P","o","s","t","-","O","p","e","r","a","t","i","v","e"," ","D","i","a","g","n","o","s","e","s">>) @@
  ("Post-Operative Diagnosis" :> <<"P","o","s","t","-","O","p","e","r","a","t","i","v","e"," ","D","i","a","g","n","o","s","i","s">>) @@
  ("Procedures Performed" :> <<"P","r","o","c","e","d","u","r","e","s"," ","P","e","r","f","o","r","m","e","d">>) @@
  ("Procedure Performed" :> <<"P","r","o","c","e","d","u","r","e"," ","P","e","r","f","o","r","m","e","d">>) @@
  ("Procedures" :> <<"P","r","o","c","e","d","u","r","e","s">>) @@
  ("Anesthesia" :> <<"A","n","e","s","t","h","e","s","i","a">>) @@
  ("Indication for Surgery" :> <<"I","n","d","i","c","a","t","i","o","n"," ","f","o","r"," ","S","u","r","g","e","r","y">>) @@
  ("Indications for Surgery" :> <<"I","n","d","i","c","a","t","i","o","n","s"," ","f","o","r"," ","S","u","r","g","e","r","y">>) @@
  ("Operative Findings" :> <<"O","p","e","r","a","t","i","v","e"," ","F","i","n","d","i","n","g","s">>) @@
  ("Postoperative Course" :> <<"P","o","s","t","o","p","e","r","a","t","i","v","e"," ","C","o","u","r","s","e">>) @@
  ("Post-Operative Course" :> <<"P","o","s","t","-","O","p","e","r","a","t","i","v","e"," ","C","o","u","r","s","e">>) @@
  ("Functional Limitations" :> <<"F","u","n","c","t","i","o","n","a","l"," ","L","i","m","i","t","a","t","i","o","n","s">>) @@
  ("Discharge Plan" :> <<"D","i","s","c","h","a","r","g","e"," ","P","l","a","n">>) @@
  ("Discharge Instructions" :> <<"D","i","s","c","h","a","r","g","e"," ","I","n","s","t","r","u","c","t","i","o","n","s">>) @@
  ("Prognosis" :> <<"P","r","o","g","n","o","s","i","s">>) @@
  ("Physician Signature" :> <<"P","h","y","s","i","c","i","a","n"," ","S","i","g","n","a","t","u","r","e">>) @@
  ("Attending Physician" :> <<"A","t","t","e","n","d","i","n","g"," ","P","h","y","s","i","c","i","a","n">>) @@
  ("Follow-Up" :> <<"F","o","l","l","o","w","-","U","p">>) @@
  ("Medications" :> <<"M","e","d","i","c","a","t","i","o","n","s">>) @@
  ("Current Medications" :> <<"C","u","r","r","e","n","t"," ","M","e","d","i","c","a","t","i","o","n","s">>) @@
  ("Allergies" :> <<"A","l","l","e","r","g","i","e","s">>) @@
  ("Known Allergies" :> <<"K","n","o","w","n"," ","A","l","l","e","r","g","i","e","s">>) @@
  ("NKDA" :> <<"N","K","D","A">>) @@
  ("nkda" :> <<"n","k","d","a">>) @@
  ("No known drug allergies" :> <<"N","o"," ","k","n","o","w","n"," ","d","r","u","g"," ","a","l","l","e","r","g","i","e","s">>) @@
  ("NO KNOWN ALLERGIES" :> <<"N","O"," ","K","N","O","W","N"," ","A","L","L","E","R","G","I","E","S">>) @@
  ("No Known Allergies" :> <<"N","o"," ","K","n","o","w","n"," ","A","l","l","e","r","g","i","e","s">>) @@
  ("No known food allergies" :> <<"N","o"," ","k","n","o","w","n"," ","f","o","o","d"," ","a","l","l","e","r","g","i","e","s">>) @@
  ("Left Total Knee Replacement" :> <<"L","e","f","t"," ","T","o","t","a","l"," ","K","n","e","e"," ","R","e","p","l","a","c","e","m","e","n","t">>) @@
  ("Right Total Knee Replacement" :> <<"R","i","g","h","t"," ","T","o","t","a","l"," ","K","n","e","e"," ","R","e","p","l","a","c","e","m","e","n","t">>) @@
  ("Total Hip Replacement" :> <<"T","o","t","a","l"," ","H","i","p"," ","R","e","p","l","a","c","e","m","e","n","t">>) @@
  ("2025-09-18" :> <<"2","0","2","5","-","0","9","-","1","8">>) @@
  ("Dr Smith" :> <<"D","r"," ","S","m","i","t","h">>) @@
  ("Dr. Smith" :> <<"D","r","."," ","S","m","i","t","h">>) @@
  ("morphine" :> <<"m","o","r","p","h","i","n","e">>) @@
  ("Morphine" :> <<"M","o","r","p","h","i","n","e">>) @@
  ("MORPHINE" :> <<"M","O","R","P","H","I","N","E">>) @@
  ("acetaminophen" :> <<"a","c","e","t","a","m","i","n","o","p","h","e","n">>) @@
  ("Acetaminophen" :> <<"A","c","e","t","a","m","i","n","o","p","h","e","n">>) @@
  ("aspirin" :> <<"a","s","p","i","r","i","n">>) @@
  ("Aspirin" :> <<"A","s","p","i","r","i","n">>) @@
  ("Severe osteoarthritis" :> <<"S","e","v","e","r","e"," ","o","s","t","e","o","a","r","t","h","r","i","t","i","s">>) @@
  ("Chronic knee pain" :> <<"C","h","r","o","n","i","c"," ","k","n","e","e"," ","p","a","i","n">>) @@
  ("The patient tolerated the procedure well" :> <<"T","h","e"," ","p","a","t","i","e","n","t"," ","t","o","l","e","r","a","t","e","d"," ","t","h","e"," ","p","r","o","c","e","d","u","r","e"," ","w","e","l","l">>) @@
  ("The patient was admitted" :> <<"T","h","e"," ","p","a","t","i","e","n","t"," ","w","a","s"," ","a","d","m","i","t","t","e","d">>) @@
  ("Follow up in two weeks" :> <<"F","o","l","l","o","w"," ","u","p"," ","i","n"," ","t","w","o"," ","w","e","e","k","s">>) @@
  ("Drowsiness" :> <<"D","r","o","w","s","i","n","e","s","s">>) @@
  ("Nausea and vomiting" :> <<"N","a","u","s","e","a"," ","a","n","d"," ","v","o","m","i","t","i","n","g">>) @@
  ("Take one tablet by mouth every six hours" :> <<"T","a","k","e"," ","o","n","e"," ","t","a","b","l","e","t"," ","b","y"," ","m","o","u","t","h"," ","e","v","e","r","y"," ","s","i","x"," ","h","o","u","r","s">>) @@
  ("" :> <<>>) @@
  ("Arthroscopy" :> <<"A","r","t","h","r","o","s","c","o","p","y">>) @@
  ("Meniscectomy" :> <<"M","e","n","i","s","c","e","c","t","o","m","y">>) @@
  ("of the left knee" :> <<"o","f"," ","t","h","e"," ","l","e","f","t"," ","k","n","e","e">>) @@
  ("with cement fixation" :> <<"w","i","t","h"," ","c","e","m","e","n","t"," ","f","i","x","a","t","i","o","n">>) @@
  ("tolerated well" :> <<"t","o","l","e","r","a","t","e","d"," ","w","e","l","l">>) @@
  ("Penicillin" :> <<"P","e","n","i","c","i","l","l","i","n">>) @@
  ("123" :> <<"1","2","3">>) @@
  ("456" :> <<"4","5","6">>) @@
  ("A-123" :> <<"A","-","1","2","3">>) @@
  ("ABC" :> <<"A","B","C">>) @@
  ("Total Knee Replacement" :> <<"T","o","t","a","l"," ","K","n","e","e"," ","R","e","p","l","a","c","e","m","e","n","t">>) @@
  ("Knee Replacement" :> <<"K","n","e","e"," ","R","e","p","l","a","c","e","m","e","n","t">>) @@
  ("Appendectomy" :> <<"A","p","p","e","n","d","e","c","t","o","m","y">>)

S_preop == <<"p","r","e","o","p">>

S_postop == <<"p","o","s","t","o","p">>

S_diagnos == <<"d","i","a","g","n","o","s">>

S_procedure == <<"p","r","o","c","e","d","u","r","e">>

S_anesthesia == <<"a","n","e","s","t","h","e","s","i","a">>

S_indication == <<"i","n","d","i","c","a","t","i","o","n">>

S_operative_finding == <<"o","p","e","r","a","t","i","v","e","_","f","i","n","d","i","n","g">>

S_course == <<"c","o","u","r","s","e">>

S_functional == <<"f","u","n","c","t","i","o","n","a","l">>

S_discharge == <<"d","i","s","c","h","a","r","g","e">>

S_prognosis == <<"p","r","o","g","n","o","s","i","s">>

S_physician == <<"p","h","y","s","i","c","i","a","n">>

S_signature == <<"s","i","g","n","a","t","u","r","e">>

S_medication == <<"m","e","d","i","c","a","t","i","o","n">>

S_allerg == <<"a","l","l","e","r","g">>

S_nkda == <<"n","k","d","a">>

S_no_known == <<"n","o"," ","k","n","o","w","n">>

S_no_known_allergies == <<"n","o"," ","k","n","o","w","n"," ","a","l","l","e","r","g","i","e","s">>

S_no_known_drug_allergies == <<"n","o"," ","k","n","o","w","n"," ","d","r","u","g"," ","a","l","l","e","r","g","i","e","s">>

S_preop_diagnoses == <<"p","r","e","o","p","_","d","i","a","g","n","o","s","e","s">>

S_postop_diagnoses == <<"p","o","s","t","o","p","_","d","i","a","g","n","o","s","e","s">>

S_procedures == <<"p","r","o","c","e","d","u","r","e","s">>

S_operative_findings == <<"o","p","e","r","a","t","i","v","e","_","f","i","n","d","i","n","g","s">>

S_postop_course == <<"p","o","s","t","o","p","_","c","o","u","r","s","e">>

S_functional_limitations == <<"f","u","n","c","t","i","o","n","a","l","_","l","i","m","i","t","a","t","i","o","n","s">>

S_discharge_plan == <<"d","i","s","c","h","a","r","g","e","_","p","l","a","n">>

S_physician_signature == <<"p","h","y","s","i","c","i","a","n","_","s","i","g","n","a","t","u","r","e">>

S_medications == <<"m","e","d","i","c","a","t","i","o","n","s">>

S_allergies == <<"a","l","l","e","r","g","i","e","s">>

(***************************************************************************)
(* Section Slicer (headerSliceExtractor.js)                                *)
(***************************************************************************)
HeaderSet == Range(HEADERS)

\* A line [k, v] of a document text.
Line(k, v) == [k |-> k, v |-> v]

\* The characters of a header line of shape k whose header has the
\* characters cs
HeaderShape(k, cs) ==
  CASE k = "hdr" -> cs
    [] k = "hdrlc" -> ToLower(cs) \o <<":">>
    [] k = "hdrprose" -> cs \o <<" ", "w", "e", "r", "e", " ", "d", "o", "n", "e">>

\* The characters of the lines that begin with header text
LineChars(line) == HeaderShape(line.k, Spell[line.v])

\* The characters of a line of shape k whose text v has the characters cs
LineShape(k, cs) ==
  CASE k \in {"hdr", "hdrlc", "hdrprose"} -> HeaderShape(k, cs)
    [] k = "num" -> <<"1", ".", " ">> \o cs
    [] k = "numparen" -> <<"2", ")", " ">> \o cs
    [] k = "star" -> <<"*", " ">> \o cs
    [] k = "dash" -> <<"-", " ">> \o cs
    [] k = "subbullet" -> <<" ", " ", " ", "-", " ">> \o cs
    [] k = "indent" -> <<" ", " ", " ">> \o cs
    [] k = "date" -> <<"D", "a", "t", "e", " ", "o", "f", " ", "S", "u", "r", "g", "e", "r", "y", ":", " ">> \o cs
    [] k = "surgeon" -> <<"S", "u", "r", "g", "e", "o", "n", ":", " ">> \o cs
    [] k = "mrn" -> <<"M", "R", "N", ":", " ">> \o cs
    [] k = "allergic" -> <<"P", "a", "t", "i", "e", "n", "t", " ", "i", "s", " ", "a", "l", "l", "e", "r", "g", "i", "c", " ", "t", "o", " ">> \o cs
    [] k = "paren" -> <<"P", "a", "i", "n", " ", "c", "o", "n", "t", "r", "o", "l", "l", "e", "d", " ", "(">> \o cs \o <<")">>
    [] k = "sched" -> <<"S", "c", "h", "e", "d", "u", "l", "e", "d", " ">> \o cs
    [] k = "med" -> <<"P", "a", "t", "i", "e", "n", "t", " ", "r", "e", "c", "e", "i", "v", "e", "d", " ">> \o cs \o <<" ", "f", "o", "r", " ", "p", "a", "i", "n">>
    [] OTHER -> cs

\* The characters of a line of each shape
LineText(line) == LineShape(line.k, Spell[line.v])

\* chars begins with the header's characters hs, in any case
HeaderPrefixOf(hs, chars) ==
  /\ Len(chars) >= Len(hs)
  /\ ToLower(SubSeq(chars, 1, Len(hs))) = ToLower(hs)

\* chars is the header's characters hs, in any case, followed by colons and
\* blanks only
HeaderMatch(hs, chars) ==
  /\ HeaderPrefixOf(hs, chars)
  /\ \A i \in (Len(hs) + 1)..Len(chars) : chars[i] \in {":", " "}

\* The header test with the end anchor left out: /^\s*h/i
HeaderTestPrefix(header, chars) == HeaderPrefixOf(Spell[header], chars)

\* new RegExp(`^\\s*${header}[:\\s]*$`, 'i').test(line)
\*   || line.trim().toLowerCase() === header.toLowerCase()
HeaderTest(header, chars) == HeaderMatch(Spell[header], chars)

\* The header of HEADERS that the loop of sliceByHeaders matches on a line:
\* the first header that passes the test, or NULL.  The lines of the other
\* shapes begin with a digit or a label and match no header.
MatchedHeader(line) ==
  IF line.k \in {"hdr", "hdrlc", "hdrprose"} /\ line.v \in HeaderSet
  THEN LET hits == {i \in 1..Len(HEADERS) : HeaderTest(HEADERS[i], LineChars(line))}
       IN  IF hits = {} THEN NULL
           ELSE HEADERS[CHOOSE i \in hits : \A j \in hits : i <= j]
  ELSE NULL

\* normalizeHeaderKey: lower-case, non-alphanumerics to "_", then the first
\* matching substring rule; the result is the key's characters.
normalizeHeaderKey(header) ==
  LET normalized == Underscore(ToLower(Spell[header]))
      has(sub) == Includes(normalized, sub)
  IN  IF has(S_preop) /\ has(S_diagnos) THEN S_preop_diagnoses
      ELSE IF has(S_postop) /\ has(S_diagnos) THEN S_postop_diagnoses
      ELSE IF has(S_procedure) THEN S_procedures
      ELSE IF has(S_anesthesia) THEN S_anesthesia
      ELSE IF has(S_indication) THEN S_indication
      ELSE IF has(S_operative_finding) THEN S_operative_findings
      ELSE IF has(S_postop) /\ has(S_course) THEN S_postop_course
      ELSE IF has(S_functional) THEN S_functional_limitations
      ELSE IF has(S_discharge) THEN S_discharge_plan
      ELSE IF has(S_prognosis) THEN S_prognosis
      ELSE IF has(S_physician) \/ has(S_signature) THEN S_physician_signature
      ELSE IF has(S_medication) THEN S_medications
      ELSE IF has(S_allerg) THEN S_allergies
      ELSE normalized

\* normalizeHeaderKey tabulated over the vocabulary.
HeaderKey == [h \in HeaderSet |-> normalizeHeaderKey(h)]

\* currentContent.join('\n').trim(): the lines without the blank lines at
\* both ends
RECURSIVE TrimBlank(_)
TrimBlank(lines) ==
  IF lines = <<>> THEN <<>>
  ELSE IF Head(lines).k = "blank" THEN TrimBlank(Tail(lines))
  ELSE IF lines[Len(lines)].k = "blank" THEN TrimBlank(SubSeq(lines, 1, Len(lines) - 1))
  ELSE lines

\* An assignment to `sections` that leaves a key it already holds alone
PutSectionKeepFirst(sections, key, body) ==
  IF \E s \in sections : s.key = key THEN sections
  ELSE sections \cup {[key |-> key, body |-> TrimBlank(body)]}

\* sections[key] = body.trim().  sections is a set of [key, body] pairs with
\* unique keys (the object `sections`); assigning a key replaces its body.
PutSection(sections, key, body) ==
  {s \in sections : s.key # key} \cup {[key |-> key, body |-> TrimBlank(body)]}

RECURSIVE SliceLoop(_, _, _, _)
SliceLoop(lines, currentHeader, currentContent, sections) ==
  IF lines = <<>>
  THEN IF currentHeader # NULL
       THEN PutSection(sections, HeaderKey[currentHeader], currentContent)
       ELSE sections
  ELSE LET line == Head(lines)
           matchedHeader == MatchedHeader(line)
       IN  IF matchedHeader # NULL
           THEN SliceLoop(Tail(lines), matchedHeader, <<>>,
                          IF currentHeader # NULL
                          THEN PutSection(sections, HeaderKey[currentHeader], currentContent)
                          ELSE sections)
           ELSE IF currentHeader # NULL
           THEN SliceLoop(Tail(lines), currentHeader, Append(currentContent, line), sections)
           ELSE SliceLoop(Tail(lines), currentHeader, currentContent, sections)

sliceByHeaders(text) == SliceLoop(text, NULL, <<>>, {})

\* 'key' in sections
HasSection(sections, key) == \E s \in sections : s.key = key

\* sections[key], the empty text when the key is absent
SectionBody(sections, key) ==
  IF HasSection(sections, key)
  THEN (CHOOSE s \in sections : s.key = key).body
  ELSE <<>>

(***************************************************************************)
(* List and field extractors (headerSliceExtractor.js)                     *)
(***************************************************************************)
\* line.trim() on the characters of a line (no line ends in a blank)
RECURSIVE TrimLeft(_)
TrimLeft(cs) == IF cs # <<>> /\ Head(cs) = " " THEN TrimLeft(Tail(cs)) ELSE cs

\* The number of digits a string starts with
RECURSIVE LeadingDigits(_)
LeadingDigits(cs) ==
  IF cs # <<>> /\ Head(cs) \in DigitChars THEN 1 + LeadingDigits(Tail(cs)) ELSE 0

\* The glyphs of bulletMatch and of isSubBullet; the black circle, the white
\* circle and the small bullet are written by their code points
BulletGlyphs == {"U+25CF", "U+25CB", "U+2022", "-", "*"}

SubBulletGlyphs == {"U+25CB", "U+2022", "-"}

\* The numbered-item test for the marker "1." alone
NumberedMatchDotOnly(cs) ==
  LET trimmed == TrimLeft(cs)
      d == LeadingDigits(trimmed)
  IN  d >= 1 /\ Len(trimmed) > d + 1 /\ trimmed[d + 1] = "."

\* trimmed.match(/^(\d+)[.)]\s*(.+)/)
NumberedMatch(cs) ==
  LET trimmed == TrimLeft(cs)
      d == LeadingDigits(trimmed)
  IN  d >= 1 /\ Len(trimmed) > d + 1 /\ trimmed[d + 1] \in {".", ")"}

\* trimmed.match(/^[●○•\-\*]\s*(.+)/)
BulletMatch(cs) ==
  LET trimmed == TrimLeft(cs)
  IN  Len(trimmed) >= 2 /\ trimmed[1] \in BulletGlyphs

\* trimmed.match(/^[○•\-]\s*/)
IsSubBullet(cs) ==
  LET trimmed == TrimLeft(cs)
  IN  trimmed # <<>> /\ trimmed[1] \in SubBulletGlyphs

\* line.startsWith('   ') || line.startsWith('\t')
IsIndented(cs) == Len(cs) >= 3 /\ SubSeq(cs, 1, 3) = <<" ", " ", " ">>

\* isIndented || (!trimmed.match(/^[A-Z]/) && trimmed.length < 60)
IsContinuation(cs) ==
  LET trimmed == TrimLeft(cs)
  IN  \/ IsIndented(cs)
      \/ /\ ~(trimmed # <<>> /\ trimmed[1] \in Range(UpperChars))
         /\ Len(trimmed) < 60

\* line.trim() as a string, for the shapes that may continue an item
TrimmedString(line) ==
  CASE line.k = "star" -> "* " \o line.v
    [] line.k = "hdrlc" -> line.v \o ":"
    [] OTHER -> line.v

\* The loop of extractNumberedList over the lines of a block.  The tests are
\* made on the characters of the line; the text a marker line captures is
\* the payload of the line.
RECURSIVE ListLoop(_, _, _)
ListLoop(lines, currentItem, items) ==
  IF lines = <<>>
  THEN IF currentItem # NULL THEN Append(items, currentItem) ELSE items
  ELSE LET line == Head(lines)
           cs == LineText(line)
       IN  IF TrimLeft(cs) = <<>>
           THEN ListLoop(Tail(lines), currentItem, items)
           ELSE IF NumberedMatch(cs)
           THEN ListLoop(Tail(lines), line.v,
                         IF currentItem # NULL THEN Append(items, currentItem) ELSE items)
           ELSE IF BulletMatch(cs) /\ currentItem = NULL
           THEN ListLoop(Tail(lines), currentItem, Append(items, line.v))
           ELSE IF currentItem # NULL
           THEN IF IsSubBullet(cs)
                THEN ListLoop(Tail(lines), currentItem, items)
                ELSE IF IsContinuation(cs)
                THEN ListLoop(Tail(lines), currentItem \o " " \o TrimmedString(line), items)
                ELSE ListLoop(Tail(lines), NULL, Append(items, currentItem))
           ELSE ListLoop(Tail(lines), currentItem, items)

extractNumberedList(block) ==
  IF block = <<>> THEN <<>> ELSE ListLoop(block, NULL, <<>>)

\* String.prototype.toUpperCase on one character
UpperChar(c) ==
  IF \E i \in 1..26 : LowerChars[i] = c
  THEN UpperChars[CHOOSE i \in 1..26 : LowerChars[i] = c]
  ELSE c

\* The string that has the characters cs
Unspell(spelling, cs) == CHOOSE s \in DOMAIN spelling : spelling[s] = cs

Str(cs) == Unspell(Spell, cs)

\* str.toLowerCase()
toLowerCase(str) == Str(ToLower(Spell[str]))

\* capitalizeFirst: the first character in upper case, the rest as it is
capitalizeFirst(str) ==
  IF str = "" THEN str
  ELSE Str(<<UpperChar(Spell[str][1])>> \o Tail(Spell[str]))

\* meds.add on the insertion-ordered Set
SetAdd(meds, name) == IF name \in Range(meds) THEN meds ELSE Append(meds, name)

\* The drug names of knownDrugs and of medicationPatterns that occur in the
\* model's texts, in the order of the patterns.
MedicationPatterns == <<"morphine", "acetaminophen", "aspirin">>

\* knownDrugs.test(part): a known drug name occurs in the part, in any case
KnownDrugsTest(part) ==
  \E i \in 1..Len(MedicationPatterns) :
    Includes(ToLower(Spell[part]), Spell[MedicationPatterns[i]])

\* The lines that hold a drug name as a word of their own
DrugLineKinds == {"med", "paren", "sched"}

\* Layer A: a parenthetical "(v)" whose inner text is a known drug name is
\* one part, longer than two characters and shorter than fifty, and is
\* added as capitalizeFirst(part), in the capitalisation of the text.
RECURSIVE LayerA(_, _)
LayerA(text, meds) ==
  IF text = <<>> THEN meds
  ELSE LET line == Head(text)
       IN  IF /\ line.k = "paren"
              /\ KnownDrugsTest(line.v)
              /\ Len(Spell[line.v]) > 2
              /\ Len(Spell[line.v]) < 50
           THEN LayerA(Tail(text), SetAdd(meds, capitalizeFirst(line.v)))
           ELSE LayerA(Tail(text), meds)

\* Layer B: /\b(name)\b/gi for each pattern in turn; every match is added
\* as capitalizeFirst(match.toLowerCase()).
RECURSIVE MedScan(_, _, _)
MedScan(patterns, text, meds) ==
  IF patterns = <<>> THEN meds
  ELSE MedScan(Tail(patterns), text,
               IF \E i \in 1..Len(text) :
                    /\ text[i].k \in DrugLineKinds
                    /\ toLowerCase(text[i].v) = Head(patterns)
               THEN SetAdd(meds, capitalizeFirst(Head(patterns)))
               ELSE meds)

\* The names of the /acetaminophen|ibuprofen|tylenol|aspirin/i test of Layer C
ScheduledDrugs == {"acetaminophen", "aspirin"}

\* Layer C: "scheduled <word>" with a word longer than three characters that
\* holds one of the scheduled drug names
RECURSIVE LayerC(_, _)
LayerC(text, meds) ==
  IF text = <<>> THEN meds
  ELSE LET line == Head(text)
       IN  IF /\ line.k = "sched"
              /\ Len(Spell[line.v]) > 3
              /\ \E d \in ScheduledDrugs : Includes(ToLower(Spell[line.v]), Spell[d])
           THEN LayerC(Tail(text), SetAdd(meds, capitalizeFirst(toLowerCase(line.v))))
           ELSE LayerC(Tail(text), meds)

\* extractMedications: the three layers add to one Set, which keeps one
\* entry per distinct string in insertion order.
extractMedications(text) ==
  IF text = <<>> THEN <<>>
  ELSE LayerC(text, MedScan(MedicationPatterns, text, LayerA(text, <<>>)))

\* /\n\s*[A-Z][a-z]+\s*:/i matches at a line that is one word and a colon
IsLabelLine(line) == line.k \in {"surgeon", "mrn"}

\* Lines up to (not including) the first label line
RECURSIVE UpToLabel(_)
UpToLabel(lines) ==
  IF lines = <<>> \/ IsLabelLine(Head(lines)) THEN <<>>
  ELSE <<Head(lines)>> \o UpToLabel(Tail(lines))

\* A line that ends in "allergies" (the anchor of allergySectionMatch)
IsAllergiesAnchor(line) == line.k = "hdr" /\ line.v \in {"Allergies", "Known Allergies"}

RECURSIVE SelectLines(_, _)
SelectLines(lines, k) ==
  IF lines = <<>> THEN <<>>
  ELSE (IF Head(lines).k = k THEN <<Head(lines).v>> ELSE <<>>) \o SelectLines(Tail(lines), k)

\* /\bNKDA\b/i.test(line) || /no\s+known\s+(drug\s+)?allergies/i.test(line)
\* on the lines that hold such words
NkdaTest(line) ==
  /\ line.k \in {"nkda", "noknown"}
  /\ \/ ToLower(Spell[line.v]) = S_nkda
     \/ Includes(ToLower(Spell[line.v]), S_no_known_allergies)
     \/ Includes(ToLower(Spell[line.v]), S_no_known_drug_allergies)

\* The items of the allergies section, else the "allergic to" phrases
ListedAllergies(text) ==
  LET anchors == {i \in 1..Len(text) : IsAllergiesAnchor(text[i])}
      first == CHOOSE i \in anchors : \A j \in anchors : i <= j
      block == IF anchors = {} THEN <<>>
               ELSE UpToLabel(SubSeq(text, first + 1, Len(text)))
      items == extractNumberedList(block)
      allergicTo == SelectLines(text, "allergic")
  IN  IF items # <<>> THEN items ELSE allergicTo

\* extractAllergies with the sentinel test after the section and the phrases
extractAllergiesListFirst(text) ==
  IF ListedAllergies(text) # <<>> THEN ListedAllergies(text)
  ELSE IF \E i \in 1..Len(text) : NkdaTest(text[i]) THEN <<"NKDA">>
  ELSE <<>>

extractAllergies(text) ==
  IF \E i \in 1..Len(text) : NkdaTest(text[i])
  THEN <<"NKDA">>
  ELSE ListedAllergies(text)

\* surgeon.replace(/^Dr\.?\s*/i, 'Dr. ')
NormalizeDr == ("Dr Smith" :> "Dr. Smith") @@ ("Dr. Smith" :> "Dr. Smith")

FirstOf(text, k) ==
  LET vs == SelectLines(text, k) IN IF vs = <<>> THEN NULL ELSE Head(vs)

\* extractSurgeryMetadata: one probe per field, first match wins.  No line
\* shape holds a facility or a patient name.
extractSurgeryMetadata(text) ==
  [date |-> FirstOf(text, "date"),
   surgeon |-> IF FirstOf(text, "surgeon") = NULL THEN NULL
               ELSE NormalizeDr[FirstOf(text, "surgeon")],
   facility |-> NULL,
   patient_name |-> NULL,
   mrn |-> FirstOf(text, "mrn")]

\* Number of leading lines that buildSummary keeps of a text
SummaryLines == 1

buildSummary(text) ==
  SubSeq(text, 1, IF Len(text) < SummaryLines THEN Len(text) ELSE SummaryLines)

(***************************************************************************)
(* Confidence of the header-slice extractor (headerSliceExtractor.js)      *)
(***************************************************************************)
SLICE_PENALTY == 15

SliceViolationCount(invariants) ==
  (IF invariants.preop_diagnoses_header_exists /\ ~invariants.preop_diagnoses_extracted THEN 1 ELSE 0)
  + (IF invariants.postop_diagnoses_header_exists /\ ~invariants.postop_diagnoses_extracted THEN 1 ELSE 0)
  + (IF invariants.procedures_header_exists /\ ~invariants.procedures_extracted THEN 1 ELSE 0)

Max(a, b) == IF a > b THEN a ELSE b

Min(a, b) == IF a < b THEN a ELSE b

\* computeConfidence(extraction, invariants) of the header-slice extractor.
\* extraction.doc has no field `surgeon`, so only the facility counts as
\* metadata.
sliceComputeConfidence(extraction, invariants) ==
  LET sum == (IF extraction.surgery.date # NULL THEN 20 ELSE 0)
           + (IF Len(extraction.surgery.procedures) > 0 THEN 25 ELSE 0)
           + (IF Len(extraction.diagnoses.preop) > 0 THEN 15 ELSE 0)
           + (IF Len(extraction.diagnoses.postop) > 0 THEN 15 ELSE 0)
           + (IF Len(extraction.medications) > 0 THEN 10 ELSE 0)
           + (IF Len(extraction.allergies) > 0 THEN 5 ELSE 0)
           + (IF extraction.doc.facility # NULL THEN 10 ELSE 0)
      violationCount == SliceViolationCount(invariants)
  IN  IF violationCount > 0 THEN Max(0, sum - violationCount * SLICE_PENALTY) ELSE sum

(***************************************************************************)
(* extractWithHeaderSlice                                                  *)
(***************************************************************************)
\* violations: one entry per header that exists while its list is empty
\* (the model keeps the name of the list in place of the message)
SliceViolations(invariants) ==
  (IF invariants.preop_diagnoses_header_exists /\ ~invariants.preop_diagnoses_extracted
   THEN <<"preop">> ELSE <<>>)
  \o (IF invariants.postop_diagnoses_header_exists /\ ~invariants.postop_diagnoses_extracted
      THEN <<"postop">> ELSE <<>>)
  \o (IF invariants.procedures_header_exists /\ ~invariants.procedures_extracted
      THEN <<"procedures">> ELSE <<>>)

\* The object extractWithHeaderSlice returns
SliceOutcome(extraction, invariants) ==
  [extraction |-> extraction,
   confidence |-> sliceComputeConfidence(extraction, invariants),
   invariants |-> invariants,
   violations |-> SliceViolations(invariants)]

\* The invariants and the extraction object built from the extracted lists.
\* An evidence entry is the section body it quotes; the empty body stands
\* for null (both are falsy where the evidence is read).
AssembleExtraction(text, sections, preopDx, postopDx, procedures, medications, allergies, metadata, functionalLimitations) ==
  SliceOutcome(
    [doc |-> [doc_type |-> "surgical_report",
              doc_date |-> metadata.date,
              facility |-> metadata.facility,
              provider |-> metadata.surgeon,
              patient_name |-> metadata.patient_name,
              mrn |-> metadata.mrn],
     surgery |-> [has_surgery |-> Len(procedures) > 0,
                  date |-> metadata.date,
                  surgeon |-> metadata.surgeon,
                  procedures |-> procedures],
     diagnoses |-> [preop |-> preopDx, postop |-> postopDx],
     medications |-> medications,
     allergies |-> allergies,
     functional_limitations |-> functionalLimitations,
     summary |-> buildSummary(text),
     evidence |-> [surgery_date |-> metadata.date,
                   procedures_section |-> SectionBody(sections, S_procedures),
                   preop_dx_section |-> SectionBody(sections, S_preop_diagnoses),
                   postop_dx_section |-> SectionBody(sections, S_postop_diagnoses)]],
    [preop_diagnoses_header_exists |-> HasSection(sections, S_preop_diagnoses),
     postop_diagnoses_header_exists |-> HasSection(sections, S_postop_diagnoses),
     procedures_header_exists |-> HasSection(sections, S_procedures),
     preop_diagnoses_extracted |-> Len(preopDx) > 0,
     postop_diagnoses_extracted |-> Len(postopDx) > 0,
     procedures_extracted |-> Len(procedures) > 0])

\* medications: from the postoperative course, else from the full text
MedicationsOf(fromCourse, fromText) ==
  IF fromCourse = <<>> THEN fromText ELSE fromCourse

\* The extractors applied to the sections and to the full text
ExtractFromSections(text, sections) ==
  AssembleExtraction(text, sections,
    extractNumberedList(SectionBody(sections, S_preop_diagnoses)),
    extractNumberedList(SectionBody(sections, S_postop_diagnoses)),
    extractNumberedList(SectionBody(sections, S_procedures)),
    MedicationsOf(extractMedications(SectionBody(sections, S_postop_course)),
                  extractMedications(text)),
    extractAllergies(text),
    extractSurgeryMetadata(text),
    extractNumberedList(SectionBody(sections, S_functional_limitations)))

extractWithHeaderSlice(text) == ExtractFromSections(text, sliceByHeaders(text))

(***************************************************************************)
(* Text extraction and confidence (safeExtractionPipeline.js)              *)
(***************************************************************************)
CONFIDENCE_AUTO_MERGE == 80

CONFIDENCE_REVIEW_RECOMMENDED == 60

\* textResult.charCount < 200 in processDocumentSafe
MIN_TEXT_LENGTH == 200

\* text.trim().length > 100 after pdftotext
PDFTOTEXT_MIN == 100

\* data.text.trim().length > 50 after pdf-parse
PDFPARSE_MIN == 50

\* extractTextFromPDF.  A file is [exists, text, chars, pdftotext, pdfparse]:
\* its text, the length of that text in characters, and whether each tool
\* succeeds on it.
extractTextFromPDF(file) ==
  IF file.pdftotext /\ file.chars > PDFTOTEXT_MIN
  THEN [text |-> file.text, method |-> "pdftotext", charCount |-> file.chars, needsOCR |-> FALSE]
  ELSE IF file.pdfparse /\ file.chars > PDFPARSE_MIN
  THEN [text |-> file.text, method |-> "pdf-parse", charCount |-> file.chars, needsOCR |-> FALSE]
  ELSE [text |-> <<>>, method |-> "failed", charCount |-> 0, needsOCR |-> TRUE]

\* Object.values(pass2.evidence).some(v => v && v.length > 0)
HasEvidence(pass2) ==
  \/ pass2.evidence.surgery_date # NULL
  \/ pass2.evidence.procedures_section # <<>>
  \/ pass2.evidence.preop_dx_section # <<>>
  \/ pass2.evidence.postop_dx_section # <<>>

\* The signal weights with the evidence signal left out
WeightSumNoEvidence(pass2) ==
    (IF pass2.surgery.date # NULL THEN 25 ELSE 0)
  + (IF Len(pass2.surgery.procedures) > 0 THEN 20 ELSE 0)
  + (IF Len(pass2.diagnoses.preop) + Len(pass2.diagnoses.postop) > 0 THEN 20 ELSE 0)
  + (IF Len(pass2.allergies) > 0 THEN 10 ELSE 0)
  + (IF Len(pass2.medications) > 0 THEN 10 ELSE 0)
  + (IF pass2.doc.facility # NULL \/ pass2.doc.provider # NULL \/ pass2.doc.mrn # NULL
     THEN 10 ELSE 0)

\* The sum of the signal weights of computeConfidence(pass2Result), in
\* hundredths.  The code adds the weights as doubles in this order; for every
\* subset of the signals the double sum compares with 0.80 and with 0.60 as
\* the integer sum compares with 80 and with 60.
WeightSum(pass2) ==
    (IF pass2.surgery.date # NULL THEN 25 ELSE 0)
  + (IF Len(pass2.surgery.procedures) > 0 THEN 20 ELSE 0)
  + (IF Len(pass2.diagnoses.preop) + Len(pass2.diagnoses.postop) > 0 THEN 20 ELSE 0)
  + (IF Len(pass2.allergies) > 0 THEN 10 ELSE 0)
  + (IF Len(pass2.medications) > 0 THEN 10 ELSE 0)
  + (IF pass2.doc.facility # NULL \/ pass2.doc.provider # NULL \/ pass2.doc.mrn # NULL
     THEN 10 ELSE 0)
  + (IF HasEvidence(pass2) THEN 5 ELSE 0)

\* computeConfidence(pass2Result) of the pipeline: the score
computeConfidence(pass2) == Min(100, WeightSum(pass2))

(***************************************************************************)
(* The characters of a text and field-level confidence                     *)
(* (safeExtractionPipeline.js)                                             *)
(***************************************************************************)
\* rawText.toLowerCase().includes(needle), for a needle without a line break
TextIncludes(text, needle) ==
  \E i \in 1..Len(text) : Includes(ToLower(LineText(text[i])), needle)

S_admission == <<"a","d","m","i","s","s","i","o","n">>

S_admitted == <<"a","d","m","i","t","t","e","d">>

S_date_of_surgery == <<"d","a","t","e"," ","o","f"," ","s","u","r","g","e","r","y">>

S_surgery_date == <<"s","u","r","g","e","r","y"," ","d","a","t","e">>

S_operation == <<"o","p","e","r","a","t","i","o","n">>

S_preoperative_diagnosis == <<"p","r","e","o","p","e","r","a","t","i","v","e"," ","d","i","a","g","n","o","s","i","s">>

S_pre_operative_diagnosis == <<"p","r","e","-","o","p","e","r","a","t","i","v","e"," ","d","i","a","g","n","o","s","i","s">>

S_postoperative_diagnosis == <<"p","o","s","t","o","p","e","r","a","t","i","v","e"," ","d","i","a","g","n","o","s","i","s">>

S_post_operative_diagnosis == <<"p","o","s","t","-","o","p","e","r","a","t","i","v","e"," ","d","i","a","g","n","o","s","i","s">>

S_analgesia == <<"a","n","a","l","g","e","s","i","a">>

S_discharge_med == <<"d","i","s","c","h","a","r","g","e"," ","m","e","d">>

\* [...new Set(list)]: the first occurrence of every entry, in order
RECURSIVE Dedupe(_)
Dedupe(list) ==
  IF list = <<>> THEN <<>>
  ELSE LET front == Dedupe(SubSeq(list, 1, Len(list) - 1))
           last == list[Len(list)]
       IN  IF \E i \in 1..Len(front) : front[i] = last THEN front ELSE Append(front, last)

\* allergies.some(a => sub.toLowerCase().includes('nkda') || ...includes('no known'))
IsNKDA(allergies) ==
  \E i \in 1..Len(allergies) :
     \/ Includes(ToLower(Spell[allergies[i]]), S_nkda)
     \/ Includes(ToLower(Spell[allergies[i]]), S_no_known)

\* pass2Result.evidence?.surgery?.procedures
HasProcedureEvidence(pass2) ==
  /\ "surgery" \in DOMAIN pass2.evidence
  /\ "procedures" \in DOMAIN pass2.evidence.surgery

\* pass2Result.name, or NULL where the extraction has no such property
Prop(pass2, name) == IF name \in DOMAIN pass2 THEN pass2[name] ELSE NULL

\* The field names pushed to missingFields, in the order of the pushes.  The
\* entries of medications and allergies are strings (names), so none of them
\* carries a dose or a reaction.
MissingFields(pass2, rawText) ==
  (IF pass2.doc.patient_name # NULL THEN <<>> ELSE <<"patient_name">>)
  \o (IF pass2.doc.mrn # NULL THEN <<>> ELSE <<"mrn">>)
  \o (IF Prop(pass2, "date_of_admission") = NULL /\ Prop(pass2, "admission_date") = NULL
         /\ (TextIncludes(rawText, S_admission) \/ TextIncludes(rawText, S_admitted))
      THEN <<"admission_date">> ELSE <<>>)
  \o (IF Prop(pass2, "date_of_discharge") = NULL /\ Prop(pass2, "discharge_date") = NULL
         /\ TextIncludes(rawText, S_discharge)
      THEN <<"discharge_date">> ELSE <<>>)
  \o (IF pass2.surgery.date = NULL
         /\ (TextIncludes(rawText, S_date_of_surgery) \/ TextIncludes(rawText, S_surgery_date))
      THEN <<"surgery_date">> ELSE <<>>)
  \o (IF Len(pass2.surgery.procedures) = 0
         /\ (TextIncludes(rawText, S_procedure) \/ TextIncludes(rawText, S_operation))
      THEN <<"procedures">> ELSE <<>>)
  \o (IF Len(pass2.diagnoses.preop) = 0
         /\ (TextIncludes(rawText, S_preoperative_diagnosis)
             \/ TextIncludes(rawText, S_pre_operative_diagnosis))
      THEN <<"preop_dx">> ELSE <<>>)
  \o (IF Len(pass2.diagnoses.postop) = 0
         /\ (TextIncludes(rawText, S_postoperative_diagnosis)
             \/ TextIncludes(rawText, S_post_operative_diagnosis))
      THEN <<"postop_dx">> ELSE <<>>)
  \o (IF Len(pass2.medications) > 0
      THEN <<"medications_dose", "medications_frequency">>
      ELSE IF TextIncludes(rawText, S_medication) \/ TextIncludes(rawText, S_analgesia)
              \/ TextIncludes(rawText, S_discharge_med)
      THEN <<"medications">> ELSE <<>>)
  \o (IF Len(pass2.allergies) > 0
      THEN (IF IsNKDA(pass2.allergies) THEN <<>> ELSE <<"allergies_reaction">>)
      ELSE IF TextIncludes(rawText, S_allerg) THEN <<"allergies">> ELSE <<>>)

\* computeFieldConfidence(pass2Result, rawText); scores in hundredths
computeFieldConfidence(pass2, rawText) ==
  [field_confidence |->
     [patient_name |-> IF pass2.doc.patient_name # NULL THEN 95 ELSE 0,
      mrn |-> IF pass2.doc.mrn # NULL THEN 90 ELSE 0,
      admission_date |-> IF Prop(pass2, "date_of_admission") # NULL
                            \/ Prop(pass2, "admission_date") # NULL THEN 92 ELSE 0,
      discharge_date |-> IF Prop(pass2, "date_of_discharge") # NULL
                            \/ Prop(pass2, "discharge_date") # NULL THEN 92 ELSE 0,
      surgery_date |-> IF pass2.surgery.date # NULL THEN 93 ELSE 0,
      procedures |-> IF Len(pass2.surgery.procedures) = 0 THEN 0
                     ELSE IF HasProcedureEvidence(pass2) THEN 95 ELSE 85,
      preop_dx |-> IF Len(pass2.diagnoses.preop) > 0 THEN 90 ELSE 0,
      postop_dx |-> IF Len(pass2.diagnoses.postop) > 0 THEN 90 ELSE 0,
      medications |-> IF Len(pass2.medications) > 0 THEN 60 ELSE 0,
      allergies |-> IF Len(pass2.allergies) = 0 THEN 0
                    ELSE IF IsNKDA(pass2.allergies) THEN 95 ELSE 70],
   missing_fields |-> Dedupe(MissingFields(pass2, rawText))]

(***************************************************************************)
(* checkInvariants (safeExtractionPipeline.js)                             *)
(***************************************************************************)
S_sedation == <<"s","e","d","a","t","i","o","n">>

S_reaction_time == <<"r","e","a","c","t","i","o","n"," ","t","i","m","e">>

S_side_effect == <<"s","i","d","e"," ","e","f","f","e","c","t">>

S_emoji == <<"e","m","o","j","i">>

S_coordination == <<"c","o","o","r","d","i","n","a","t","i","o","n">>

S_drowsiness == <<"d","r","o","w","s","i","n","e","s","s">>

S_nausea == <<"n","a","u","s","e","a">>

S_vomiting == <<"v","o","m","i","t","i","n","g">>

S_constipation == <<"c","o","n","s","t","i","p","a","t","i","o","n">>

\* badPatterns of the medication filter, in lower case (the tests ignore case)
BadPatterns ==
  {S_sedation, S_reaction_time, S_side_effect, S_emoji, S_coordination, S_drowsiness,
   S_nausea, S_vomiting, S_constipation}

\* name.split(' ').length
WordCount(cs) == Len(SelectSeq(cs, LAMBDA c : c = " ")) + 1

\* isBad || isTooLong of the medication filter
InvalidMedication(name) ==
  \/ \E p \in BadPatterns : Includes(ToLower(Spell[name]), p)
  \/ WordCount(Spell[name]) > 6

\* The auto-fix of invariant 5 whatever the allergy list holds
NkdaAutoFixAnyList(pass2, rawText) ==
  \/ TextIncludes(rawText, S_nkda)
  \/ TextIncludes(rawText, S_no_known_drug_allergies)
  \/ TextIncludes(rawText, S_no_known_allergies)

\* Invariant 5: the text says NKDA or no known (drug) allergies, no entry of
\* the allergy list says so, and the list is empty
NkdaAutoFix(pass2, rawText) ==
  /\ \/ TextIncludes(rawText, S_nkda)
     \/ TextIncludes(rawText, S_no_known_drug_allergies)
     \/ TextIncludes(rawText, S_no_known_allergies)
  /\ ~IsNKDA(pass2.allergies)
  /\ Len(pass2.allergies) = 0

\* The issues of invariants 1 to 4, in the order they are pushed
StructuralIssues(pass1, pass2, rawText) ==
  (IF (pass1.anchors.date_of_surgery \/ TextIncludes(rawText, S_date_of_surgery))
      /\ ~pass2.surgery.has_surgery /\ Len(pass2.surgery.procedures) = 0
   THEN <<[code |-> "MISSING_SURGERY", message |-> "no surgery", severity |-> "critical"]>>
   ELSE <<>>)
  \o (IF pass1.anchors.has_procedures_section /\ Len(pass2.surgery.procedures) = 0
      THEN <<[code |-> "MISSING_PROCEDURES", message |-> "no procedures", severity |-> "critical"]>>
      ELSE <<>>)
  \o (IF pass1.anchors.has_preop_dx_section /\ Len(pass2.diagnoses.preop) = 0
      THEN <<[code |-> "MISSING_PREOP_DX", message |-> "no preop", severity |-> "warning"]>>
      ELSE <<>>)
  \o (IF pass1.anchors.has_postop_dx_section /\ Len(pass2.diagnoses.postop) = 0
      THEN <<[code |-> "MISSING_POSTOP_DX", message |-> "no postop", severity |-> "warning"]>>
      ELSE <<>>)

\* One issue per medication the filter removes; the message names the entry
MedicationIssues(medications) ==
  LET removed == SelectSeq(medications, InvalidMedication)
  IN  [i \in 1..Len(removed) |->
         [code |-> "INVALID_MEDICATION", message |-> removed[i], severity |-> "info"]]

\* checkInvariants(pass1Result, pass2Result, rawText): the report it returns
\* and pass2Result as the call leaves it
checkInvariants(pass1, pass2, rawText) ==
  LET issues == StructuralIssues(pass1, pass2, rawText) \o MedicationIssues(pass2.medications)
      hasCritical == \E i \in 1..Len(issues) : issues[i].severity = "critical"
  IN  [validation |->
         [passed |-> ~hasCritical,
          issues |-> issues,
          hasCritical |-> hasCritical,
          hasWarnings |-> \E i \in 1..Len(issues) : issues[i].severity = "warning"],
       pass2 |->
         [pass2 EXCEPT
            !.allergies = IF NkdaAutoFix(pass2, rawText) THEN <<"NKDA">> ELSE @,
            !.medications = SelectSeq(@, LAMBDA med : ~InvalidMedication(med))]]

(***************************************************************************)
(* Inputs: uploaded files and the enrichment service                       *)
(***************************************************************************)
\* Largest number of items in a section of an uploaded text
MaxItems == 1

ProcedureItems == <<"Total Knee Replacement", "Appendectomy">>

DiagnosisItems == <<"Severe osteoarthritis", "Chronic knee pain">>

\* A section of a text: absent (-1), a header with no items (0), or a header
\* followed by n numbered items
SectionLines(header, items, n) ==
  IF n < 0 THEN <<>>
  ELSE <<Line("hdr", header)>> \o [i \in 1..n |-> Line("num", items[i])]

BuildText(date, meta, med, preop, proc, allergy) ==
  (IF date # NULL THEN <<Line("date", date)>> ELSE <<>>)
  \o (IF meta = "surgeon" THEN <<Line("surgeon", "Dr Smith")>>
      ELSE IF meta = "mrn" THEN <<Line("mrn", "123")>> ELSE <<>>)
  \o (IF med # NULL THEN <<Line("med", med)>> ELSE <<>>)
  \o SectionLines("Preoperative Diagnoses", DiagnosisItems, preop)
  \o SectionLines("Procedures Performed", ProcedureItems, proc)
  \o (IF allergy = "nkda" THEN <<Line("nkda", "NKDA")>>
      ELSE IF allergy = "real" THEN <<Line("allergic", "Penicillin")>> ELSE <<>>)

\* Texts long enough for extraction: every one names the record number and
\* has a diagnoses section; date, procedures section and allergy line vary.
\* Two more texts name a surgeon and a medication, one of them under an
\* empty procedures header.
LongTexts ==
  {BuildText(date, "mrn", NULL, MaxItems, proc, allergy) :
     date \in {NULL, "2025-09-18"}, proc \in -1..MaxItems, allergy \in {"nkda", "real"}}
  \cup {BuildText(NULL, "surgeon", "morphine", -1, proc, "none") : proc \in {-1, 0}}

\* A complete report: date, one diagnosis, one procedure, NKDA
FullText == BuildText("2025-09-18", "none", NULL, 1, 1, "nkda")

\* A note of two lines
ShortText == BuildText("2025-09-18", "none", NULL, -1, -1, "nkda")

\* Uploaded files.  chars is the length of the file's text: the lines shown
\* and any prose no extractor reacts to.  First the files whose text passes
\* the length gate, among them the complete report without a record
\* number; then texts that are too short, with and without
\* pdftotext; then an empty text, a scan on which both tools fail, and a
\* file that has been removed from disk.
Files ==
  {[exists |-> TRUE, text |-> t, chars |-> MIN_TEXT_LENGTH, pdftotext |-> TRUE, pdfparse |-> TRUE] :
     t \in LongTexts}
  \cup {[exists |-> TRUE, text |-> FullText, chars |-> MIN_TEXT_LENGTH, pdftotext |-> TRUE, pdfparse |-> TRUE],
        [exists |-> TRUE, text |-> ShortText, chars |-> PDFPARSE_MIN + 1, pdftotext |-> FALSE, pdfparse |-> TRUE],
        [exists |-> TRUE, text |-> ShortText, chars |-> PDFTOTEXT_MIN + 1, pdftotext |-> TRUE, pdfparse |-> TRUE],
        [exists |-> TRUE, text |-> FullText, chars |-> MIN_TEXT_LENGTH - 1, pdftotext |-> TRUE, pdfparse |-> TRUE],
        [exists |-> TRUE, text |-> <<>>, chars |-> 0, pdftotext |-> TRUE, pdfparse |-> TRUE],
        [exists |-> TRUE, text |-> FullText, chars |-> MIN_TEXT_LENGTH + 1, pdftotext |-> FALSE, pdfparse |-> FALSE],
        [exists |-> FALSE, text |-> FullText, chars |-> MIN_TEXT_LENGTH, pdftotext |-> TRUE, pdfparse |-> TRUE]}

\* The enrichment service as one run finds it: unavailable, available with
\* a drug name, available with a side effect in place of a drug name,
\* available with an empty answer (also a call that fails)
LLMInputs ==
  {[available |-> FALSE, meds |-> <<>>],
   [available |-> TRUE, meds |-> <<"Aspirin">>],
   [available |-> TRUE, meds |-> <<"Drowsiness">>],
   [available |-> TRUE, meds |-> <<>>]}

\* extractWithHeaderSlice tabulated over the texts of the files
SliceResult == [t \in {f.text : f \in Files} |-> extractWithHeaderSlice(t)]


(***************************************************************************)
(* processDocumentSafe                                                     *)
(***************************************************************************)
\* The result object as initialised at the top of processDocumentSafe.
\* pass2 and validation are <<>> for null and <<value>> otherwise.
InitialResult ==
  [success |-> FALSE, status |-> "error", pass2 |-> <<>>, validation |-> <<>>,
   confidence |-> 0, canMerge |-> FALSE, needsReview |-> FALSE,
   reviewReasons |-> <<>>, model |-> NULL, error |-> NULL]

\* Step 5 with a low branch that asks for review and leaves the result
\* mergeable
MergeEligibilityLowMergeable(result) ==
  IF result.confidence >= CONFIDENCE_REVIEW_RECOMMENDED
  THEN [result EXCEPT !.canMerge = TRUE, !.status = "extracted",
                      !.reviewReasons =
                         IF result.confidence < CONFIDENCE_AUTO_MERGE
                            \/ ~result.validation[1].passed
                         THEN Append(@, "Confidence below auto-merge threshold - review recommended")
                         ELSE @]
  ELSE [result EXCEPT !.canMerge = TRUE, !.status = "needs_review", !.needsReview = TRUE,
                      !.reviewReasons = Append(@, "Confidence too low")]

\* Step 5 of processDocumentSafe: merge eligibility from score and validation
MergeEligibility(result) ==
  IF result.confidence >= CONFIDENCE_AUTO_MERGE /\ result.validation[1].passed
  THEN [result EXCEPT !.canMerge = TRUE, !.status = "extracted"]
  ELSE IF result.confidence >= CONFIDENCE_REVIEW_RECOMMENDED
  THEN [result EXCEPT !.canMerge = TRUE, !.status = "extracted",
                      !.reviewReasons =
                         IF result.confidence < CONFIDENCE_AUTO_MERGE
                         THEN Append(@, "Confidence below auto-merge threshold - review recommended")
                         ELSE @]
  ELSE [result EXCEPT !.canMerge = FALSE, !.status = "needs_review", !.needsReview = TRUE,
                      !.reviewReasons = Append(@, "Confidence too low")]

\* The text gate with the length test left out
TextUnusableNoLength(textResult) == textResult.needsOCR

\* if (textResult.needsOCR || textResult.charCount < 200)
TextUnusable(textResult) ==
  textResult.needsOCR \/ textResult.charCount < MIN_TEXT_LENGTH

\* Step 3 without the test that the slicer found no medication
EnrichedWheneverHelpNeeded(sliceResult, llm) ==
  /\ llm.available
  /\ \/ Len(sliceResult.extraction.medications) = 0
     \/ /\ sliceResult.invariants.procedures_header_exists
        /\ Len(sliceResult.extraction.surgery.procedures) = 0
  /\ Len(llm.meds) > 0

\* Step 3: the enrichment service supplies the medications when it is
\* available, help is needed and the slicer found no medication
Enriched(sliceResult, llm) ==
  /\ llm.available
  /\ \/ Len(sliceResult.extraction.medications) = 0
     \/ /\ sliceResult.invariants.procedures_header_exists
        /\ Len(sliceResult.extraction.surgery.procedures) = 0
  /\ Len(sliceResult.extraction.medications) = 0
  /\ Len(llm.meds) > 0

\* result.pass2 after steps 2 and 3
Pass2Of(sliceResult, enriched, llm) ==
  IF enriched THEN [sliceResult.extraction EXCEPT !.medications = llm.meds]
  ELSE sliceResult.extraction

\* Step 4: result.validation, built from the violations of the slicer and
\* the field-level confidence of the extraction
ValidationOf(sliceResult, fieldConf) ==
  [passed |-> Len(sliceResult.violations) = 0,
   issues |-> [i \in 1..Len(sliceResult.violations) |->
                 [code |-> "HEADER_SLICE_VIOLATION",
                  message |-> sliceResult.violations[i],
                  severity |-> "warning"]],
   hasCritical |-> FALSE,
   hasWarnings |-> Len(sliceResult.violations) > 0,
   invariants |-> sliceResult.invariants,
   field_confidence |-> fieldConf.field_confidence,
   missing_fields |-> fieldConf.missing_fields]

\* Steps 2 to 5 on the text that passed the gate
ProcessSlice(text, sliceResult, enriched, llm) ==
  [MergeEligibility(
     [InitialResult EXCEPT
        !.model = IF enriched THEN "header-slice+llm-meds" ELSE "header-slice-regex",
        !.pass2 = <<Pass2Of(sliceResult, enriched, llm)>>,
        !.reviewReasons = sliceResult.violations,
        !.validation =
           <<ValidationOf(sliceResult,
                          computeFieldConfidence(Pass2Of(sliceResult, enriched, llm), text))>>,
        !.confidence = computeConfidence(Pass2Of(sliceResult, enriched, llm))])
   EXCEPT !.success = TRUE]

\* Step 1 onwards, once the text has been read
ProcessText(textResult, llm) ==
  IF TextUnusable(textResult)
  THEN [InitialResult EXCEPT
          !.status = "needs_review", !.needsReview = TRUE,
          !.reviewReasons = <<"Text extraction failed or document may need OCR">>]
  ELSE ProcessSlice(textResult.text, SliceResult[textResult.text],
                    Enriched(SliceResult[textResult.text], llm), llm)

\* processDocumentSafe(document).  llm is the enrichment service as this run
\* finds it: [available, meds], meds being the list extractMedsWithLLM
\* returns ([] when the call fails).
processDocumentSafe(file, llm) ==
  IF ~file.exists
  THEN [InitialResult EXCEPT !.error = "Document file not found", !.status = "error"]
  ELSE ProcessText(extractTextFromPDF(file), llm)

(***************************************************************************)
(* Chart format and chart write                                            *)
(***************************************************************************)
\* convertToChartFormat(pass2Result, documentId) of safeExtractionPipeline.js.
\* The chart it builds has no record-number field.
convertToChartFormat(pass2, documentId) ==
  [surgeries |->
     IF pass2.surgery.has_surgery \/ Len(pass2.surgery.procedures) > 0
     THEN <<[date |-> pass2.surgery.date,
             procedures |-> pass2.surgery.procedures,
             surgeon |-> IF pass2.surgery.surgeon # NULL THEN pass2.surgery.surgeon
                         ELSE pass2.doc.provider,
             source_document_id |-> documentId]>>
     ELSE <<>>,
   diagnoses |-> pass2.diagnoses.preop \o pass2.diagnoses.postop,
   medications |-> [i \in 1..Len(pass2.medications) |->
                      [name |-> pass2.medications[i], source_document_id |-> documentId]],
   allergies |-> [i \in 1..Len(pass2.allergies) |->
                    [substance |-> pass2.allergies[i], source_document_id |-> documentId]],
   summary |-> pass2.summary]

\* convertToChartFormat applied to a stored extraction whose pass2 is null:
\* `extractionData.pass2 || extractionData` is then the wrapper object, which
\* has none of the fields read, so every list is empty and summary is null.
EmptyChartData ==
  [surgeries |-> <<>>, diagnoses |-> <<>>, medications |-> <<>>, allergies |-> <<>>,
   summary |-> <<>>]

\* The key mergeExtractionIntoChart compares surgeries by
SurgeryKey(s) == <<IF s.date # NULL THEN s.date ELSE "unknown", s.procedures>>

\* The key by which mergeExtractionIntoChart compares the entries of a list
EntryKey(column, x) ==
  CASE column = "surgeries" -> SurgeryKey(x)
    [] column = "problems" -> x
    [] column = "meds" -> x.name
    [] column = "allergies" -> x.substance

RECURSIVE PushNew(_, _, _)
\* A write that replaces the list by the incoming entries
PushNewOverwriting(list, incoming, column) == incoming

\* incoming.forEach(x => { if (!list.some(y => key(y) === key(x))) list.push(x) })
PushNew(list, incoming, column) ==
  IF incoming = <<>> THEN list
  ELSE PushNew(IF \E i \in 1..Len(list) : EntryKey(column, list[i]) = EntryKey(column, Head(incoming))
               THEN list ELSE Append(list, Head(incoming)),
               Tail(incoming), column)

\* mergeExtractionIntoChart(patientId, extractionData): the patient row it
\* writes.  A patient row is [surgeries, problems, meds, allergies,
\* chart_summary, mrn], the lists being the parsed *_json columns.
mergeExtractionIntoChart(patient, extractionData) ==
  [patient EXCEPT
     !.surgeries = PushNew(@, extractionData.surgeries, "surgeries"),
     !.problems = PushNew(@, extractionData.diagnoses, "problems"),
     !.meds = PushNew(@, extractionData.medications, "meds"),
     !.allergies = PushNew(@, extractionData.allergies, "allergies"),
     !.chart_summary = IF extractionData.summary # <<>>
                       THEN Append(@, extractionData.summary) ELSE @]

(***************************************************************************)
(* Conflict detection (safeExtractionPipeline.js)                          *)
(***************************************************************************)
\* str.split(/\s+/) on the characters of a string without leading blanks
RECURSIVE SplitWords(_, _)
SplitWords(cs, word) ==
  IF cs = <<>> THEN (IF word = <<>> THEN <<>> ELSE <<word>>)
  ELSE IF Head(cs) = " "
  THEN (IF word = <<>> THEN <<>> ELSE <<word>>) \o SplitWords(Tail(cs), <<>>)
  ELSE SplitWords(Tail(cs), Append(word, Head(cs)))

\* levenshteinSimilar(str1, str2, 0.7) on character strings
levenshteinSimilar(str1, str2) ==
  IF str1 = <<>> \/ str2 = <<>> THEN FALSE
  ELSE LET longer == IF Len(str1) > Len(str2) THEN str1 ELSE str2
           shorter == IF Len(str1) > Len(str2) THEN str2 ELSE str1
           words1 == SplitWords(str1, <<>>)
           words2 == SplitWords(str2, <<>>)
           commonWords == SelectSeq(words1, LAMBDA w : \E i \in 1..Len(words2) : words2[i] = w)
       IN  \/ Includes(longer, shorter)
           \/ Includes(shorter, longer)
           \/ 10 * Len(commonWords) >= 7 * Max(Len(words1), Len(words2))

\* rec.name, or NULL where the object has no such property
Field(rec, name) == IF name \in DOMAIN rec THEN rec[name] ELSE NULL

\* sub.toLowerCase().includes('nkda') || sub.toLowerCase().includes('no known')
SaysNoKnown(sub) ==
  \/ Includes(ToLower(Spell[sub]), S_nkda)
  \/ Includes(ToLower(Spell[sub]), S_no_known)

HasNKDA(allergyList) ==
  \E i \in 1..Len(allergyList) : SaysNoKnown(allergyList[i].substance)

\* The test for a real allergy that counts every entry
HasRealAllergyAnyEntry(allergyList) == Len(allergyList) > 0

HasRealAllergy(allergyList) ==
  \E i \in 1..Len(allergyList) :
     ~SaysNoKnown(allergyList[i].substance) /\ Len(Spell[allergyList[i].substance]) > 0

\* list.filter(a => !sub.toLowerCase().includes('nkda')).map(a => a.substance)
NonNkdaNames(allergyList) ==
  LET kept == SelectSeq(allergyList, LAMBDA a : ~Includes(ToLower(Spell[a.substance]), S_nkda))
  IN  [i \in 1..Len(kept) |-> kept[i].substance]

\* The overlap test by containment alone
ProceduresOverlapByContainment(newSurgery, existingSurgery) ==
  \E i \in 1..Len(newSurgery.procedures), j \in 1..Len(existingSurgery.procedures) :
     LET np == ToLower(Spell[newSurgery.procedures[i]])
         ep == ToLower(Spell[existingSurgery.procedures[j]])
     IN  Includes(np, ep) \/ Includes(ep, np)

\* newProcs.some(np => existingProcs.some(ep => np.includes(ep) || ep.includes(np) || similar))
ProceduresOverlap(newSurgery, existingSurgery) ==
  \E i \in 1..Len(newSurgery.procedures), j \in 1..Len(existingSurgery.procedures) :
     LET np == ToLower(Spell[newSurgery.procedures[i]])
         ep == ToLower(Spell[existingSurgery.procedures[j]])
     IN  Includes(np, ep) \/ Includes(ep, np) \/ levenshteinSimilar(np, ep)

\* The date_mismatch conflicts, one per pair of an incoming and an existing
\* surgery, in the order of the two nested loops.
DateConflicts(newSurgeries, existingSurgeries) ==
  LET n == Len(newSurgeries)
      m == Len(existingSurgeries)
      pairs == [k \in 1..(n * m) |-> <<((k - 1) \div m) + 1, ((k - 1) % m) + 1>>]
      hit(p) == /\ newSurgeries[p[1]].date # NULL
                /\ existingSurgeries[p[2]].date # NULL
                /\ ProceduresOverlap(newSurgeries[p[1]], existingSurgeries[p[2]])
                /\ newSurgeries[p[1]].date # existingSurgeries[p[2]].date
      hits == SelectSeq(pairs, hit)
  IN  [k \in 1..Len(hits) |->
         [field |-> "surgery_date", type |-> "date_mismatch",
          existing |-> <<existingSurgeries[hits[k][2]].date>>,
          incoming |-> <<newSurgeries[hits[k][1]].date>>,
          severity |-> "warning"]]

\* Conflict 3 with the digits of the incoming record number taken from the
\* existing one (both lines read existingChart.mrn)
MrnMismatchCopied(newMrn, existingMrn) ==
  /\ newMrn # NULL /\ existingMrn # NULL
  /\ Spell[newMrn] # <<>> /\ Spell[existingMrn] # <<>>
  /\ StripNonDigits(Spell[existingMrn]) # <<>>
  /\ StripNonDigits(Spell[existingMrn]) # StripNonDigits(Spell[existingMrn])

\* Conflict 3 fires: both record numbers truthy, both digit strings
\* non-empty, and the digit strings differ.
MrnMismatch(newMrn, existingMrn) ==
  /\ newMrn # NULL /\ existingMrn # NULL
  /\ Spell[newMrn] # <<>> /\ Spell[existingMrn] # <<>>
  /\ StripNonDigits(Spell[existingMrn]) # <<>>
  /\ StripNonDigits(Spell[newMrn]) # <<>>
  /\ StripNonDigits(Spell[existingMrn]) # StripNonDigits(Spell[newMrn])

\* detectConflicts(extractedData, existingChart).  existing and incoming of a
\* conflict are lists; a scalar of the code is a list of one.
detectConflicts(extractedData, existingChart) ==
  LET existingAllergies == existingChart.allergies
      existingSurgeries == existingChart.surgeries
      newAllergies == extractedData.allergies
      newSurgeries == extractedData.surgeries
      nkdaVsAllergy == HasNKDA(existingAllergies) /\ HasRealAllergy(newAllergies)
      allergyVsNkda == /\ HasRealAllergy(existingAllergies)
                       /\ HasNKDA(newAllergies) /\ ~HasRealAllergy(newAllergies)
      dateConflicts == DateConflicts(newSurgeries, existingSurgeries)
      mrnMismatch == MrnMismatch(Field(extractedData, "mrn"), Field(existingChart, "mrn"))
      conflicts ==
        (IF nkdaVsAllergy
         THEN <<[field |-> "allergies", type |-> "nkda_vs_allergy",
                 existing |-> <<"NKDA">>, incoming |-> NonNkdaNames(newAllergies),
                 severity |-> "critical"]>>
         ELSE <<>>)
        \o (IF allergyVsNkda
            THEN <<[field |-> "allergies", type |-> "allergy_vs_nkda",
                    existing |-> NonNkdaNames(existingAllergies), incoming |-> <<"NKDA">>,
                    severity |-> "warning"]>>
            ELSE <<>>)
        \o dateConflicts
        \o (IF mrnMismatch
            THEN <<[field |-> "mrn", type |-> "mrn_mismatch",
                    existing |-> <<existingChart.mrn>>, incoming |-> <<extractedData.mrn>>,
                    severity |-> "critical"]>>
            ELSE <<>>)
  IN  [hasConflicts |-> Len(conflicts) > 0,
       hasCritical |-> \E i \in 1..Len(conflicts) : conflicts[i].severity = "critical",
       conflicts |-> conflicts,
       safeToMerge |->
         [procedures |-> ~(Len(dateConflicts) > 0 \/ mrnMismatch),
          diagnoses |-> ~mrnMismatch,
          medications |-> ~mrnMismatch,
          allergies |-> ~(nkdaVsAllergy \/ allergyVsNkda \/ mrnMismatch)]]

(***************************************************************************)
(* Chart reads and the selective chart write (patientService)              *)
(***************************************************************************)
Categories == {"procedures", "diagnoses", "medications", "allergies"}

\* getPatientWithChart(patientId): the patient row with its chart columns
\* parsed, as detectConflicts reads it.
getPatientWithChart(patient) ==
  [surgeries |-> patient.surgeries, medications |-> patient.meds,
   allergies |-> patient.allergies, problems |-> patient.problems, mrn |-> patient.mrn]

\* selectiveMergeIntoChart(patientId, chartData, mergeConfig, meta): the chart
\* write restricted to the categories mergeConfig enables.
selectiveMergeIntoChart(patient, chartData, mergeConfig) ==
  mergeExtractionIntoChart(patient,
    [chartData EXCEPT
       !.surgeries = IF mergeConfig.procedures THEN @ ELSE <<>>,
       !.diagnoses = IF mergeConfig.diagnoses THEN @ ELSE <<>>,
       !.medications = IF mergeConfig.medications THEN @ ELSE <<>>,
       !.allergies = IF mergeConfig.allergies THEN @ ELSE <<>>])

(***************************************************************************)
(* Inputs: request bodies and the charts a patient may have before the     *)
(* document arrives                                                        *)
(***************************************************************************)
\* The value of one category in the body of a selective-merge request
MergeValues == {"true", "false", "absent"}

\* Bodies of selective-merge requests: req.body.merge, each category true,
\* false or not mentioned
MergeBodies ==
  {[c \in Categories |-> "absent"],
   [c \in Categories |-> "true"],
   [c \in Categories |-> "false"],
   [c \in Categories |-> IF c = "allergies" THEN "false" ELSE "absent"],
   [c \in Categories |-> IF c = "procedures" THEN "true" ELSE "false"]}

EmptyChart ==
  [surgeries |-> <<>>, problems |-> <<>>, meds |-> <<>>, allergies |-> <<>>,
   chart_summary |-> <<>>, mrn |-> NULL]

\* Charts of a patient before the document is uploaded
InitialCharts ==
  {EmptyChart,
   [EmptyChart EXCEPT
      !.surgeries = <<[date |-> "2025-01-05", procedures |-> <<"Knee Replacement">>,
                       surgeon |-> NULL, source_document_id |-> 0]>>,
      !.allergies = <<[substance |-> "Penicillin", source_document_id |-> 0]>>,
      !.mrn = "456"],
   [EmptyChart EXCEPT
      !.allergies = <<[substance |-> "NKDA", source_document_id |-> 0]>>,
      !.mrn = "A-123"]}

\* Largest number of summaries appended to chart_summary: a request that
\* may write the chart is taken only below this length
MaxSummaries == 2

\* processDocumentSafe tabulated over the inputs
ProcessResult == [f \in Files, llm \in LLMInputs |-> processDocumentSafe(f, llm)]

(***************************************************************************)
(* State                                                                   *)
(***************************************************************************)
VARIABLES
  docRow,            \* the patient_documents row: [status, error_message, file]
  storedExtraction,  \* the document_extractions row of the document: <<>> or <<row>>
  patientRow,        \* the patients row: chart columns and record number
  lastRequest,       \* what the last request did (its response and what it read)
  mergeCalls         \* the mergeExtractionIntoChart calls in flight: [pc, data, read]

vars == <<docRow, storedExtraction, patientRow, lastRequest, mergeCalls>>

\* No mergeExtractionIntoChart call is in flight between two requests
NoCalls == <<>>

DocumentId == 1

NoFile == [exists |-> FALSE, text |-> <<>>, chars |-> 0, pdftotext |-> FALSE, pdfparse |-> FALSE]

NoConflicts == detectConflicts(EmptyChartData, getPatientWithChart(EmptyChart))

\* No field confidence computed
NoFieldConfidence ==
  [field_confidence |->
     [patient_name |-> 0, mrn |-> 0, admission_date |-> 0, discharge_date |-> 0,
      surgery_date |-> 0, procedures |-> 0, preop_dx |-> 0, postop_dx |-> 0,
      medications |-> 0, allergies |-> 0],
   missing_fields |-> <<>>]

\* A first pass that found no anchor
NoAnchors ==
  [anchors |-> [date_of_surgery |-> FALSE, has_procedures_section |-> FALSE,
                has_preop_dx_section |-> FALSE, has_postop_dx_section |-> FALSE]]

\* The extraction of the empty text
EmptyExtraction == extractWithHeaderSlice(<<>>).extraction

\* The record of a request that did nothing yet
Idle ==
  [op |-> "none", http |-> 0, result |-> InitialResult, before |-> EmptyChart,
   statusLog |-> <<>>, merged |-> FALSE, chartData |-> EmptyChartData,
   body |-> [c \in Categories |-> "absent"],
   mergeConfig |-> [c \in Categories |-> FALSE],
   conflictResult |-> NoConflicts,
   llm |-> [available |-> FALSE, meds |-> <<>>],
   sections |-> {}, allergies |-> <<>>,
   fieldConf |-> NoFieldConfidence,
   pass1 |-> NoAnchors, checked |-> <<>>,
   items |-> <<>>, slice |-> <<>>]

Init ==
  /\ docRow = [status |-> "none", error_message |-> NULL, file |-> NoFile]
  /\ storedExtraction = <<>>
  /\ patientRow \in InitialCharts
  /\ lastRequest = Idle
  /\ mergeCalls = NoCalls

(***************************************************************************)
(* Handlers (documentController.js)                                        *)
(***************************************************************************)
\* uploadDocument: createDocument stores the row with status 'uploaded'
UploadDocument(file) ==
  /\ docRow.status = "none"
  /\ docRow' = [status |-> "uploaded", error_message |-> NULL, file |-> file]
  /\ lastRequest' = [Idle EXCEPT !.op = "upload", !.http = 201, !.before = patientRow,
                          !.statusLog = <<"none", "uploaded">>]
  /\ UNCHANGED <<storedExtraction, patientRow>>
  /\ UNCHANGED mergeCalls

\* The database calls of processDocument that may reject, in program order
ProcessFailPoints == {"none", "processing", "save", "status", "merge", "merged"}

\* The row saveExtractionWithValidation stores for a result
ExtractionRow(result) ==
  [pass2 |-> result.pass2, model |-> result.model, confidence |-> result.confidence,
   validation |-> result.validation, reviewReasons |-> result.reviewReasons,
   canMerge |-> result.canMerge, needsReview |-> result.needsReview]

\* chart format of a stored extraction: pass2 = extractionData.pass2 || extractionData
StoredChartData(row) ==
  IF row.pass2 = <<>> THEN EmptyChartData ELSE convertToChartFormat(row.pass2[1], DocumentId)

\* processDocument.  fail names the database call that rejects in this run;
\* a rejection is caught at the end of the handler, which sets status
\* 'error' with the message.  saveExtractionWithValidation deletes the old
\* row before it inserts; "save" is the insert rejecting.  Report generation
\* writes only the patient_reports table and swallows its own errors.
ProcessDocument(llm, fail) ==
  /\ docRow.status # "none"
  /\ Len(patientRow.chart_summary) < MaxSummaries
  /\ \E result \in {ProcessResult[docRow.file, llm]} :
       \E chartData \in {IF result.canMerge /\ ~result.needsReview /\ result.pass2 # <<>>
                          THEN convertToChartFormat(result.pass2[1], DocumentId)
                          ELSE EmptyChartData} :
         LET wantsMerge == result.canMerge /\ ~result.needsReview /\ result.pass2 # <<>>
             \* where the run stops: the first call that rejects, if it is reached
             stop == IF fail \in {"merge", "merged"} /\ ~wantsMerge THEN "none" ELSE fail
             statusSet == stop \notin {"processing", "save"}
             chartWritten == wantsMerge /\ stop \notin {"processing", "save", "status", "merge"}
             mergedSet == chartWritten /\ stop # "merged"
             statusLog ==
               <<docRow.status>>
               \o (IF stop # "processing" THEN <<"processing">> ELSE <<>>)
               \o (IF statusSet /\ stop # "status" THEN <<result.status>> ELSE <<>>)
               \o (IF mergedSet THEN <<"merged">> ELSE <<>>)
               \o (IF stop # "none" THEN <<"error">> ELSE <<>>)
         IN  /\ docRow' =
                  [docRow EXCEPT
                     !.status = statusLog[Len(statusLog)],
                     !.error_message =
                        IF stop # "none" THEN "database call rejected"
                        ELSE IF result.error # NULL THEN result.error
                        ELSE @]
             /\ storedExtraction' =
                  IF stop = "processing" THEN storedExtraction
                  ELSE IF stop = "save" THEN <<>>
                  ELSE <<ExtractionRow(result)>>
             /\ patientRow' = IF chartWritten THEN mergeExtractionIntoChart(patientRow, chartData)
                           ELSE patientRow
             /\ lastRequest' = [Idle EXCEPT
                           !.op = "process", !.http = IF stop = "none" THEN 200 ELSE 500,
                           !.result = result, !.before = patientRow, !.statusLog = statusLog,
                           !.merged = chartWritten, !.chartData = chartData,
                           !.llm = llm]
  /\ UNCHANGED mergeCalls

\* The database calls of approveAndMerge and selectiveMerge that may reject
MergeFailPoints == {"none", "merge", "merged"}

\* approveAndMerge.  Its catch block answers 500 and leaves the status alone.
ApproveAndMerge(fail) ==
  /\ docRow.status # "none"
  /\ Len(patientRow.chart_summary) < MaxSummaries
  /\ IF docRow.status \notin {"needs_review", "extracted"} \/ storedExtraction = <<>>
     THEN /\ lastRequest' = [Idle EXCEPT !.op = "approve", !.http = 400, !.before = patientRow,
                                  !.statusLog = <<docRow.status>>]
          /\ UNCHANGED <<docRow, storedExtraction, patientRow>>
     ELSE \E chartData \in {StoredChartData(storedExtraction[1])} :
          LET chartWritten == fail # "merge"
              mergedSet == fail = "none"
              statusLog == <<docRow.status>> \o (IF mergedSet THEN <<"merged">> ELSE <<>>)
          IN  /\ patientRow' = IF chartWritten THEN mergeExtractionIntoChart(patientRow, chartData)
                            ELSE patientRow
              /\ docRow' = [docRow EXCEPT !.status = statusLog[Len(statusLog)]]
              /\ lastRequest' = [Idle EXCEPT
                            !.op = "approve", !.http = IF fail = "none" THEN 200 ELSE 500,
                            !.before = patientRow, !.statusLog = statusLog,
                            !.merged = chartWritten, !.chartData = chartData]
              /\ UNCHANGED storedExtraction
  /\ UNCHANGED mergeCalls

\* mergeConfig of selectiveMerge: merge?.category !== false
MergeConfigOf(body) == [c \in Categories |-> body[c] # "false"]

\* selectiveMerge.  It does not look at the document's status.
SelectiveMerge(body, fail) ==
  /\ docRow.status # "none"
  /\ Len(patientRow.chart_summary) < MaxSummaries
  /\ IF storedExtraction = <<>>
     THEN /\ lastRequest' = [Idle EXCEPT !.op = "selective", !.http = 400, !.before = patientRow,
                                  !.statusLog = <<docRow.status>>, !.body = body]
          /\ UNCHANGED <<docRow, storedExtraction, patientRow>>
     ELSE \E chartData \in {StoredChartData(storedExtraction[1])} :
          LET mergeConfig == MergeConfigOf(body)
              chartWritten == fail # "merge"
              mergedSet == fail = "none"
              statusLog == <<docRow.status>> \o (IF mergedSet THEN <<"merged">> ELSE <<>>)
          IN  /\ patientRow' = IF chartWritten
                            THEN selectiveMergeIntoChart(patientRow, chartData, mergeConfig)
                            ELSE patientRow
              /\ docRow' = [docRow EXCEPT !.status = statusLog[Len(statusLog)]]
              /\ lastRequest' = [Idle EXCEPT
                            !.op = "selective", !.http = IF fail = "none" THEN 200 ELSE 500,
                            !.before = patientRow, !.statusLog = statusLog,
                            !.merged = chartWritten, !.chartData = chartData,
                            !.body = body, !.mergeConfig = mergeConfig]
              /\ UNCHANGED storedExtraction
  /\ UNCHANGED mergeCalls

\* getConflicts: the conflict report of the stored extraction against the
\* patient's current chart
GetConflicts ==
  /\ docRow.status # "none"
  /\ storedExtraction # <<>>
  /\ \E chartData \in {StoredChartData(storedExtraction[1])} :
       lastRequest' = [Idle EXCEPT
                  !.op = "conflicts", !.http = 200, !.before = patientRow,
                  !.statusLog = <<docRow.status>>,
                  !.chartData = chartData,
                  !.conflictResult = detectConflicts(chartData, getPatientWithChart(patientRow))]
  /\ UNCHANGED <<docRow, storedExtraction, patientRow>>
  /\ UNCHANGED mergeCalls

Upload == \E file \in Files : UploadDocument(file)

Process == \E llm \in LLMInputs, fail \in ProcessFailPoints : ProcessDocument(llm, fail)

Approve == \E fail \in MergeFailPoints : ApproveAndMerge(fail)

Selective == \E body \in MergeBodies, fail \in MergeFailPoints : SelectiveMerge(body, fail)

Next == Upload \/ Process \/ Approve \/ Selective \/ GetConflicts

Spec == Init /\ [][Next]_vars

(***************************************************************************)
(* detectConflicts on its own: the inputs are drawn from bounded sets and  *)
(* one step applies the function                                           *)
(***************************************************************************)
MrnValues == {NULL, "123", "456", "A-123", "ABC"}

\* An allergies list with the given substances
AllergyEntries(subs) ==
  [i \in 1..Len(subs) |-> [substance |-> subs[i], source_document_id |-> 0]]

\* Allergy lists: empty, the sentinel, a substance, and a substance next to
\* the sentinel or next to an item that says "no known"
AllergyLists ==
  {AllergyEntries(subs) :
     subs \in {<<>>, <<"NKDA">>, <<"Penicillin">>, <<"NKDA", "Penicillin">>,
               <<"No known food allergies", "Penicillin">>}}

\* A surgeries list with one surgery
OneSurgery(date, procedure, documentId) ==
  <<[date |-> date, procedures |-> <<procedure>>, surgeon |-> NULL,
     source_document_id |-> documentId]>>

\* Incoming surgeries: with and without a date
IncomingSurgeries ==
  {<<>>,
   OneSurgery("2025-09-18", "Total Knee Replacement", DocumentId),
   OneSurgery("2025-09-18", "Left Total Knee Replacement", DocumentId),
   OneSurgery(NULL, "Total Knee Replacement", DocumentId)}

\* Surgeries of a chart: a name the incoming one contains, a name that
\* shares three of four words with it, one that shares two of three, an
\* unrelated one, the same surgery on the same date, one without a date,
\* and two surgeries
ChartSurgeries ==
  {<<>>,
   OneSurgery("2025-01-05", "Knee Replacement", 0),
   OneSurgery("2025-01-05", "Right Total Knee Replacement", 0),
   OneSurgery("2025-01-05", "Total Hip Replacement", 0),
   OneSurgery("2025-01-05", "Appendectomy", 0),
   OneSurgery("2025-09-18", "Total Knee Replacement", 0),
   OneSurgery(NULL, "Knee Replacement", 0),
   OneSurgery("2025-01-05", "Appendectomy", 0) \o OneSurgery("2025-01-05", "Knee Replacement", 0)}

\* Incoming data in chart format, with the record number detectConflicts
\* reads: every allergy list and record number with and without a surgery,
\* and every surgery with and without the sentinel and a record number
ConflictInputs ==
  {[surgeries |-> s, diagnoses |-> <<>>, medications |-> <<>>, allergies |-> a,
    summary |-> <<>>, mrn |-> m] :
     s \in {<<>>, OneSurgery("2025-09-18", "Total Knee Replacement", DocumentId)},
     a \in AllergyLists, m \in MrnValues}
  \cup
  {[surgeries |-> s, diagnoses |-> <<>>, medications |-> <<>>, allergies |-> a,
    summary |-> <<>>, mrn |-> m] :
     s \in IncomingSurgeries, a \in {<<>>, AllergyEntries(<<"NKDA">>)}, m \in {NULL, "123"}}

\* Existing charts, composed likewise
ConflictCharts ==
  {[EmptyChart EXCEPT !.surgeries = s, !.allergies = a, !.mrn = m] :
     s \in {<<>>, OneSurgery("2025-01-05", "Knee Replacement", 0)},
     a \in AllergyLists, m \in MrnValues}
  \cup
  {[EmptyChart EXCEPT !.surgeries = s, !.allergies = a, !.mrn = m] :
     s \in ChartSurgeries, a \in {<<>>, AllergyEntries(<<"Penicillin">>)}, m \in {NULL, "456"}}

ConflictsInit ==
  /\ docRow = [status |-> "none", error_message |-> NULL, file |-> NoFile]
  /\ storedExtraction = <<>>
  /\ patientRow \in ConflictCharts
  /\ lastRequest \in {[Idle EXCEPT !.chartData = d] : d \in ConflictInputs}
  /\ mergeCalls = NoCalls

\* detectConflicts(extractedData, existingChart) applied to the drawn inputs
DetectConflicts ==
  /\ lastRequest.op = "none"
  /\ lastRequest' = [lastRequest EXCEPT !.op = "detect",
                          !.conflictResult = detectConflicts(lastRequest.chartData, patientRow)]
  /\ UNCHANGED <<docRow, storedExtraction, patientRow>>
  /\ UNCHANGED mergeCalls

ConflictsNext == DetectConflicts

SpecConflicts == ConflictsInit /\ [][ConflictsNext]_vars

(***************************************************************************)
(* Properties                                                              *)
(***************************************************************************)
\* The conflict report names a critical record-number conflict
ReportsMrnMismatch(report) ==
  \E i \in 1..Len(report.conflicts) :
     report.conflicts[i].type = "mrn_mismatch" /\ report.conflicts[i].severity = "critical"

\* The conflict report marks every category unsafe to merge
BlocksEveryCategory(report) ==
  \A c \in Categories : ~report.safeToMerge[c]

\* Both record numbers present and unequal once non-digits are stripped
DigitsUnequal(newMrn, existingMrn) ==
  /\ newMrn # NULL /\ existingMrn # NULL
  /\ StripNonDigits(Spell[newMrn]) # StripNonDigits(Spell[existingMrn])

\* Both record numbers keep at least one digit once non-digits are stripped
BothHaveDigits(newMrn, existingMrn) ==
  /\ newMrn # NULL /\ existingMrn # NULL
  /\ StripNonDigits(Spell[newMrn]) # <<>>
  /\ StripNonDigits(Spell[existingMrn]) # <<>>

ColumnOf(c) ==
  CASE c = "procedures" -> "surgeries"
    [] c = "diagnoses" -> "problems"
    [] c = "medications" -> "meds"
    [] c = "allergies" -> "allergies"

\* The last request was a run of processDocument that wrote the chart
\* without an approval request
UnattendedMerge == lastRequest.op = "process" /\ lastRequest.merged

\* The last request was a run of processDocument whose pipeline extracted
ProcessedWithExtraction == lastRequest.op = "process" /\ lastRequest.result.pass2 # <<>>

\* C1 as stated: in every run of processDocument, the automatic chart merge
\* never writes a category for which detectConflicts, on the document's
\* chart-format extraction against the chart before the run, reports the
\* category unsafe to merge.
C1_ConflictsBlockCategory ==
  UnattendedMerge =>
    \A c \in Categories :
       patientRow[ColumnOf(c)] # lastRequest.before[ColumnOf(c)]
         => detectConflicts(lastRequest.chartData, lastRequest.before).safeToMerge[c]

\* C2 as stated: processDocument writes the chart without approval only if
\* the document's overall score is at least 0.80.
C2_UnattendedMergeNeedsAutoScore ==
  UnattendedMerge => lastRequest.result.confidence >= 80

\* The critical issues of a validation report that carry the code of the
\* empty procedures list
CriticalProcedureIssues(validation) ==
  SelectSeq(validation.issues,
            LAMBDA issue : issue.severity = "critical" /\ issue.code = "MISSING_PROCEDURES")

\* The slicer found a procedures header but the procedures list is empty
ProceduresHeaderButEmpty ==
  /\ ProcessedWithExtraction
  /\ lastRequest.result.validation[1].invariants.procedures_header_exists
  /\ lastRequest.result.pass2[1].surgery.procedures = <<>>

\* C3 as stated: where a procedures header exists but surgery.procedures is
\* empty, the invariant report holds exactly one critical violation with a
\* procedures-specific code, and processDocument does not merge the document
\* without approval.
C3_EmptyProceduresCritical ==
  ProceduresHeaderButEmpty =>
    /\ Len(CriticalProcedureIssues(lastRequest.result.validation[1])) = 1
    /\ ~lastRequest.merged

\* C4 as stated: whenever a run of processDocument ends with the status
\* error, an error message is recorded and the chart lists are what they
\* were before the run.
C4_NoChartMutationOnError ==
  (lastRequest.op = "process" /\ docRow.status = "error") =>
    /\ docRow.error_message # NULL
    /\ \A c \in Categories : patientRow[ColumnOf(c)] = lastRequest.before[ColumnOf(c)]

\* The status edges of the lifecycle
LifecycleEdges ==
  {<<"none", "uploaded">>, <<"uploaded", "processing">>,
   <<"processing", "extracted">>, <<"processing", "needs_review">>,
   <<"processing", "error">>,
   <<"extracted", "merged">>, <<"needs_review", "merged">>}

\* C5 as stated: every status change a request makes follows an edge of
\* uploaded -> processing -> {extracted | needs_review | error} -> merged,
\* merged is entered only from extracted or needs_review, and the status of
\* a merged document never changes.
C5_StatusFollowsLifecycle ==
  \A i \in 1..(Len(lastRequest.statusLog) - 1) :
     <<lastRequest.statusLog[i], lastRequest.statusLog[i + 1]>> \in LifecycleEdges

\* C6 as stated: the merge configuration selectiveMerge passes to the chart
\* write enables a category only if the request sets it true; a category set
\* false or not mentioned is excluded.
C6_SelectiveMergeOptIn ==
  (lastRequest.op = "selective" /\ lastRequest.http # 400) =>
    \A c \in Categories : lastRequest.mergeConfig[c] => lastRequest.body[c] = "true"

\* C8 as stated: for every stored document whose extracted record number
\* and the patient's record number are both present and differ in their
\* digits, the conflict report of getConflicts holds a critical
\* record-number conflict and marks all four categories unsafe.
C8_MrnMismatchEndToEnd ==
  (/\ lastRequest.op = "conflicts"
   /\ storedExtraction[1].pass2 # <<>>
   /\ DigitsUnequal(storedExtraction[1].pass2[1].doc.mrn, patientRow.mrn))
    => (ReportsMrnMismatch(lastRequest.conflictResult) /\ BlocksEveryCategory(lastRequest.conflictResult))

\* The text extracted from the file is empty or shorter than the minimum
TextTooShort(file) ==
  file.exists /\ extractTextFromPDF(file).charCount < MIN_TEXT_LENGTH

C10_ScorePenalised ==
  ProcessedWithExtraction =>
    /\ lastRequest.result.confidence =
         Max(0, WeightSum(lastRequest.result.pass2[1])
                  - SLICE_PENALTY * Len(lastRequest.result.validation[1].issues))
    /\ ProceduresHeaderButEmpty =>
         /\ lastRequest.result.confidence < 80
         /\ ~lastRequest.result.canMerge
         /\ lastRequest.result.status = "needs_review"

(***************************************************************************)
(* The complete report                                                     *)
(***************************************************************************)
\* The numbered items a text lists directly under the header line `header`
ListedUnder(text, header) ==
  IF \E i \in 1..Len(text) : text[i] = Line("hdr", header)
  THEN LET h == CHOOSE i \in 1..Len(text) : text[i] = Line("hdr", header)
           last == CHOOSE j \in h..Len(text) :
                     /\ \A k \in (h + 1)..j : text[k].k = "num"
                     /\ (j = Len(text) \/ text[j + 1].k # "num")
       IN  [k \in 1..(last - h) |-> text[h + k].v]
  ELSE <<>>

HasLine(text, k) == \E i \in 1..Len(text) : text[i].k = k

\* The last request ran the pipeline on a readable text with a surgery date,
\* a procedure, a preoperative diagnosis and NKDA, and without medication,
\* surgeon or facility
CompleteReportProcessed ==
  /\ lastRequest.op = "process"
  /\ docRow.file.exists
  /\ ~TextUnusable(extractTextFromPDF(docRow.file))
  /\ HasLine(docRow.file.text, "date")
  /\ HasLine(docRow.file.text, "nkda")
  /\ ~HasLine(docRow.file.text, "med")
  /\ ~HasLine(docRow.file.text, "surgeon")
  /\ Len(ListedUnder(docRow.file.text, "Procedures Performed")) > 0
  /\ Len(ListedUnder(docRow.file.text, "Preoperative Diagnoses")) > 0

\* C11: a document with a surgery date, at least one listed procedure, at
\* least one listed preoperative diagnosis and NKDA comes back with the
\* procedures as listed, allergies = [NKDA], a score of at least 0.80, no
\* critical violation and canMerge = true.
C11_CompleteReportMergeable ==
  CompleteReportProcessed =>
    /\ lastRequest.result.success
    /\ lastRequest.result.pass2 # <<>>
    /\ lastRequest.result.pass2[1].surgery.procedures
         = ListedUnder(docRow.file.text, "Procedures Performed")
    /\ lastRequest.result.pass2[1].allergies = <<"NKDA">>
    /\ lastRequest.result.confidence >= 80
    /\ ~lastRequest.result.validation[1].hasCritical
    /\ \A i \in 1..Len(lastRequest.result.validation[1].issues) :
         lastRequest.result.validation[1].issues[i].severity # "critical"
    /\ lastRequest.result.canMerge

\* A complete report without record number was processed: its score is
\* exactly 0.80
C11_Witness ==
  /\ CompleteReportProcessed
  /\ ~HasLine(docRow.file.text, "mrn")
  /\ lastRequest.result.confidence = 80
  /\ lastRequest.result.canMerge

(***************************************************************************)
(* Two runs of the pipeline on one document                                *)
(***************************************************************************)
\* The request record r is a run of processDocument that reached the pipeline
RanPipeline(r) ==
  /\ r.op = "process"
  /\ Len(r.statusLog) >= 2
  /\ r.statusLog[2] = "processing"

\* This step is a second run of the pipeline on the document directly after
\* a first one that left the chart as it found it: same raw text, same chart
\* snapshot
SecondRunOnSameInput ==
  /\ RanPipeline(lastRequest)
  /\ lastRequest.before = patientRow
  /\ RanPipeline(lastRequest')
  /\ docRow'.file = docRow.file

\* C12: two runs of the pipeline on the same raw text and the same chart
\* snapshot return the same extraction, the same confidence and the same
\* merge decision (status, canMerge, needsReview, review reasons), whether
\* or not the enrichment service is available in either run.
C12_PipelineIdempotent ==
  [][SecondRunOnSameInput =>
       /\ lastRequest'.result.pass2 = lastRequest.result.pass2
       /\ lastRequest'.result.confidence = lastRequest.result.confidence
       /\ lastRequest'.result.status = lastRequest.result.status
       /\ lastRequest'.result.canMerge = lastRequest.result.canMerge
       /\ lastRequest'.result.needsReview = lastRequest.result.needsReview
       /\ lastRequest'.result.reviewReasons = lastRequest.result.reviewReasons]_vars

(***************************************************************************)
(* Enrichment                                                              *)
(***************************************************************************)
\* The last request ran the pipeline on a text that passed the gate
ProcessedPastGate ==
  /\ RanPipeline(lastRequest)
  /\ docRow.file.exists
  /\ ~TextUnusable(extractTextFromPDF(docRow.file))

\* What the deterministic slicer extracts from the document's text
Deterministic == SliceResult[docRow.file.text].extraction

\* C13: enrichment only fills.  The extraction the pipeline returns differs
\* from the deterministic one at most in the medications, and only where
\* the deterministic list was empty and the service answered with a
\* non-empty list; a failed, empty or unavailable enrichment leaves it
\* unchanged.
C13_EnrichmentOnlyFills ==
  ProcessedPastGate =>
    /\ lastRequest.result.pass2 # <<>>
    /\ [lastRequest.result.pass2[1] EXCEPT !.medications = Deterministic.medications]
         = Deterministic
    /\ Deterministic.medications # <<>> => lastRequest.result.pass2[1] = Deterministic
    /\ (~lastRequest.llm.available \/ lastRequest.llm.meds = <<>>)
         => lastRequest.result.pass2[1] = Deterministic
    /\ lastRequest.result.pass2[1] # Deterministic
         => lastRequest.result.pass2[1].medications = lastRequest.llm.meds

\* The service answered with a medication for a text in which the slicer
\* found one already, under a procedures header with an empty list
C13_Witness ==
  /\ ProcessedPastGate
  /\ lastRequest.llm.available
  /\ lastRequest.llm.meds = <<"Aspirin">>
  /\ Deterministic.medications = <<"Morphine">>
  /\ SliceResult[docRow.file.text].invariants.procedures_header_exists
  /\ Deterministic.surgery.procedures = <<>>
  /\ lastRequest.result.pass2[1].medications = <<"Morphine">>

(***************************************************************************)
(* sliceByHeaders on its own: the text is drawn from the sequences of at   *)
(* most MaxSliceLines lines and one step applies the function              *)
(***************************************************************************)
\* Largest number of lines of a sliced text
MaxSliceLines == 4

\* The lines of the sliced texts: two spellings of one section, a header in
\* lower case with a colon, a header followed by prose, and body lines
SliceLineValues ==
  {Line("hdr", "Procedures Performed"), Line("hdr", "Procedures"),
   Line("hdrlc", "Allergies"), Line("hdrprose", "Procedures Performed"),
   Line("blank", ""), Line("num", "Total Knee Replacement"),
   Line("prose", "The patient tolerated the procedure well")}

SliceTexts == UNION {[1..n -> SliceLineValues] : n \in 0..MaxSliceLines}

SliceInit ==
  /\ docRow \in {[status |-> "none", error_message |-> NULL,
                   file |-> [NoFile EXCEPT !.text = t]] : t \in SliceTexts}
  /\ storedExtraction = <<>>
  /\ patientRow = EmptyChart
  /\ lastRequest = Idle
  /\ mergeCalls = NoCalls

\* sliceByHeaders(text) applied to the drawn text
SliceByHeaders ==
  /\ lastRequest.op = "none"
  /\ lastRequest' = [lastRequest EXCEPT !.op = "slice",
                                        !.sections = sliceByHeaders(docRow.file.text)]
  /\ UNCHANGED <<docRow, storedExtraction, patientRow>>
  /\ UNCHANGED mergeCalls

SliceNext == SliceByHeaders

SpecSlice == SliceInit /\ [][SliceNext]_vars

\* A line that consists solely of a recognized header
IsHeaderLine(line) == line.k \in {"hdr", "hdrlc"} /\ line.v \in HeaderSet

HeaderLines(text) == {i \in 1..Len(text) : IsHeaderLine(text[i])}

\* The lines that follow line i up to the next header line or the end
Following(text, i) ==
  LET later == {j \in HeaderLines(text) : j > i}
      stop == IF later = {} THEN Len(text) + 1
              ELSE CHOOSE j \in later : \A k \in later : j <= k
  IN  SubSeq(text, i + 1, stop - 1)

\* Lines without the blank lines at their two ends
WithoutBlankEnds(lines) ==
  LET full == {i \in 1..Len(lines) : lines[i].k # "blank"}
  IN  IF full = {} THEN <<>>
      ELSE SubSeq(lines, CHOOSE i \in full : \A j \in full : i <= j,
                         CHOOSE i \in full : \A j \in full : i >= j)

\* Header line i is the last one of its section key in the text
LastOfKey(text, i) ==
  \A j \in HeaderLines(text) : j > i => HeaderKey[text[j].v] # HeaderKey[text[i].v]

\* C14 as stated: every header line's key is mapped to exactly the lines
\* that follow that line up to the next header line, and every section is
\* the body of a header line.
C14_AsStated ==
  lastRequest.op = "slice" =>
    /\ \A i \in HeaderLines(docRow.file.text) :
         [key |-> HeaderKey[docRow.file.text[i].v], body |-> Following(docRow.file.text, i)]
           \in lastRequest.sections
    /\ \A s \in lastRequest.sections :
         \E i \in HeaderLines(docRow.file.text) :
            s = [key |-> HeaderKey[docRow.file.text[i].v], body |-> Following(docRow.file.text, i)]

\* C14: the key of every header line that is the last one of its key is
\* mapped to the lines that follow that line up to the next header line or
\* the end of the text, without the blank lines at the two ends of the
\* body; the map holds nothing else, so lines before the first header
\* belong to no section and a header followed by prose starts no section.
C14_SliceMapsLastHeader ==
  lastRequest.op = "slice" =>
    lastRequest.sections =
      {[key |-> HeaderKey[docRow.file.text[i].v],
        body |-> WithoutBlankEnds(Following(docRow.file.text, i))] :
         i \in {j \in HeaderLines(docRow.file.text) : LastOfKey(docRow.file.text, j)}}

\* A sliced text that starts with prose, then a header in lower case whose
\* body holds a header followed by prose, then another header
C14_Witness ==
  /\ lastRequest.op = "slice"
  /\ Len(docRow.file.text) = 4
  /\ docRow.file.text[1].k = "prose"
  /\ docRow.file.text[2].k = "hdrlc"
  /\ docRow.file.text[3].k = "hdrprose"
  /\ docRow.file.text[4].k = "hdr"
  /\ [key |-> S_allergies, body |-> <<docRow.file.text[3]>>] \in lastRequest.sections
  /\ [key |-> S_procedures, body |-> <<>>] \in lastRequest.sections

\* C15: when two header lines of one section key occur in a text, the map
\* holds exactly one entry for that key and its body is the body of the
\* later one (the last of that key).
C15_MostRecentWins ==
  lastRequest.op = "slice" =>
    \A i, j \in HeaderLines(docRow.file.text) :
       (/\ i < j
        /\ HeaderKey[docRow.file.text[i].v] = HeaderKey[docRow.file.text[j].v]
        /\ LastOfKey(docRow.file.text, j))
       => /\ Cardinality({s \in lastRequest.sections :
                            s.key = HeaderKey[docRow.file.text[j].v]}) = 1
          /\ \A s \in lastRequest.sections :
                s.key = HeaderKey[docRow.file.text[j].v]
                  => s.body = WithoutBlankEnds(Following(docRow.file.text, j))

\* Two spellings of the procedures header, the first with an item under it
\* and the second with prose: the section holds the prose
C15_Witness ==
  /\ lastRequest.op = "slice"
  /\ docRow.file.text = <<Line("hdr", "Procedures Performed"),
                          Line("num", "Total Knee Replacement"),
                          Line("hdr", "Procedures"),
                          Line("prose", "The patient tolerated the procedure well")>>
  /\ lastRequest.sections =
       {[key |-> S_procedures,
         body |-> <<Line("prose", "The patient tolerated the procedure well")>>]}

(***************************************************************************)
(* extractAllergies on its own                                             *)
(***************************************************************************)
\* Largest number of lines of a text given to extractAllergies
MaxAllergyLines == 3

\* The lines of those texts: the sentinel in four spellings, an allergies
\* section with an item, an "allergic to" phrase, a blank line and a label
AllergyLineValues ==
  {Line("nkda", "NKDA"), Line("nkda", "nkda"),
   Line("noknown", "No known drug allergies"), Line("noknown", "NO KNOWN ALLERGIES"),
   Line("hdr", "Allergies"), Line("num", "Penicillin"), Line("allergic", "Penicillin"),
   Line("blank", ""), Line("mrn", "123")}

AllergyTexts == UNION {[1..n -> AllergyLineValues] : n \in 0..MaxAllergyLines}

AllergiesInit ==
  /\ docRow \in {[status |-> "none", error_message |-> NULL,
                   file |-> [NoFile EXCEPT !.text = t]] : t \in AllergyTexts}
  /\ storedExtraction = <<>>
  /\ patientRow = EmptyChart
  /\ lastRequest = Idle
  /\ mergeCalls = NoCalls

\* extractAllergies(text) applied to the drawn text
ExtractAllergies ==
  /\ lastRequest.op = "none"
  /\ lastRequest' = [lastRequest EXCEPT !.op = "allergies",
                                        !.allergies = extractAllergies(docRow.file.text)]
  /\ UNCHANGED <<docRow, storedExtraction, patientRow>>
  /\ UNCHANGED mergeCalls

AllergiesNext == ExtractAllergies

SpecAllergies == AllergiesInit /\ [][AllergiesNext]_vars

\* The text holds the word NKDA or a "no known (drug) allergies" sentence
HoldsSentinel(text) == \E i \in 1..Len(text) : text[i].k \in {"nkda", "noknown"}

\* C16: for every text that holds NKDA or a no-known-(drug)-allergies
\* phrase in any case, extractAllergies returns exactly the sentinel,
\* whatever allergies section or "allergic to" phrase the text also holds.
C16_SentinelWins ==
  (lastRequest.op = "allergies" /\ HoldsSentinel(docRow.file.text))
    => lastRequest.allergies = <<"NKDA">>

\* An allergies section that lists Penicillin, followed by the phrase in
\* upper case: the result is the sentinel alone
C16_Witness ==
  /\ lastRequest.op = "allergies"
  /\ docRow.file.text = <<Line("hdr", "Allergies"), Line("num", "Penicillin"),
                          Line("noknown", "NO KNOWN ALLERGIES")>>
  /\ lastRequest.allergies = <<"NKDA">>

(***************************************************************************)
(* Allergy and surgery-date conflicts                                      *)
(***************************************************************************)
\* An allergy entry that states the absence of allergies
StatesNoAllergy(sub) == sub \in {"NKDA", "No known food allergies"}

\* The substances of a list that name a real allergy, in list order
RealSubstances(allergyList) ==
  LET real == SelectSeq(allergyList, LAMBDA a : ~StatesNoAllergy(a.substance))
  IN  [i \in 1..Len(real) |-> real[i].substance]

\* The conflicts of a report about one field
ConflictsOn(report, field) == SelectSeq(report.conflicts, LAMBDA c : c.field = field)

\* detectConflicts ran on the drawn chart and incoming data
Detected == lastRequest.op = "detect"

\* C17: the chart holds a real allergy and the incoming allergies hold the
\* NKDA sentinel and no real allergy: the report has exactly one allergy
\* conflict, of type allergy_vs_nkda and warning severity, and allergies are
\* not safe to merge.
C17_AllergyVsNkda ==
  (/\ Detected
   /\ RealSubstances(patientRow.allergies) # <<>>
   /\ \E i \in 1..Len(lastRequest.chartData.allergies) :
         lastRequest.chartData.allergies[i].substance = "NKDA"
   /\ RealSubstances(lastRequest.chartData.allergies) = <<>>)
  => /\ Len(ConflictsOn(lastRequest.conflictResult, "allergies")) = 1
     /\ ConflictsOn(lastRequest.conflictResult, "allergies")[1].type = "allergy_vs_nkda"
     /\ ConflictsOn(lastRequest.conflictResult, "allergies")[1].severity = "warning"
     /\ ~lastRequest.conflictResult.safeToMerge.allergies

\* NKDA arrives for a chart that lists Penicillin next to the sentinel
C17_Witness ==
  /\ Detected
  /\ patientRow.allergies = AllergyEntries(<<"NKDA", "Penicillin">>)
  /\ lastRequest.chartData.allergies = AllergyEntries(<<"NKDA">>)
  /\ Len(ConflictsOn(lastRequest.conflictResult, "allergies")) = 1
  /\ ~lastRequest.conflictResult.safeToMerge.allergies

\* The report holds a conflict of one of the given types
HasConflictOfType(report, types) ==
  \E i \in 1..Len(report.conflicts) : report.conflicts[i].type \in types

\* C18: the chart holds a no-known-allergies entry and the incoming data
\* lists a real substance: the report holds a critical allergy conflict
\* whose incoming values are exactly the real incoming substances, and
\* allergies are not safe to merge; unless a date or record-number conflict
\* is reported as well, procedures, diagnoses and medications stay safe.
C18_NkdaVsAllergy ==
  (/\ Detected
   /\ \E i \in 1..Len(patientRow.allergies) : StatesNoAllergy(patientRow.allergies[i].substance)
   /\ RealSubstances(lastRequest.chartData.allergies) # <<>>)
  => /\ \E i \in 1..Len(lastRequest.conflictResult.conflicts) :
          /\ lastRequest.conflictResult.conflicts[i].field = "allergies"
          /\ lastRequest.conflictResult.conflicts[i].severity = "critical"
          /\ lastRequest.conflictResult.conflicts[i].incoming
               = RealSubstances(lastRequest.chartData.allergies)
     /\ ~lastRequest.conflictResult.safeToMerge.allergies
     /\ ~HasConflictOfType(lastRequest.conflictResult, {"date_mismatch", "mrn_mismatch"})
          => /\ lastRequest.conflictResult.safeToMerge.procedures
             /\ lastRequest.conflictResult.safeToMerge.diagnoses
             /\ lastRequest.conflictResult.safeToMerge.medications


\* The words of the procedure names, in lower case
WordsOf ==
  ("Total Knee Replacement" :> <<"total", "knee", "replacement">>) @@
  ("Left Total Knee Replacement" :> <<"left", "total", "knee", "replacement">>) @@
  ("Right Total Knee Replacement" :> <<"right", "total", "knee", "replacement">>) @@
  ("Knee Replacement" :> <<"knee", "replacement">>) @@
  ("Total Hip Replacement" :> <<"total", "hip", "replacement">>) @@
  ("Appendectomy" :> <<"appendectomy">>)

\* One name contains the other, or the two share at least 70% of their words
NamesOverlap(a, b) ==
  \/ \E i \in 0..(Len(WordsOf[a]) - Len(WordsOf[b])) :
        SubSeq(WordsOf[a], i + 1, i + Len(WordsOf[b])) = WordsOf[b]
  \/ \E i \in 0..(Len(WordsOf[b]) - Len(WordsOf[a])) :
        SubSeq(WordsOf[b], i + 1, i + Len(WordsOf[a])) = WordsOf[a]
  \/ 10 * Cardinality(Range(WordsOf[a]) \cap Range(WordsOf[b]))
       >= 7 * Max(Len(WordsOf[a]), Len(WordsOf[b]))

\* The pairs of an incoming and an existing surgery, both dated, whose
\* procedures overlap and whose dates differ
MismatchedPairs(incoming, existing) ==
  {p \in (1..Len(incoming)) \X (1..Len(existing)) :
     /\ incoming[p[1]].date # NULL
     /\ existing[p[2]].date # NULL
     /\ incoming[p[1]].date # existing[p[2]].date
     /\ \E i \in 1..Len(incoming[p[1]].procedures), j \in 1..Len(existing[p[2]].procedures) :
           NamesOverlap(incoming[p[1]].procedures[i], existing[p[2]].procedures[j])}

\* The date_mismatch conflicts of a report
DateMismatches(report) == SelectSeq(report.conflicts, LAMBDA c : c.type = "date_mismatch")

\* C19: a date_mismatch conflict of warning severity is reported for a pair
\* of an incoming and an existing surgery, both dated, if and only if their
\* procedures overlap and their dates differ; the conflict makes procedures
\* unsafe to merge and, unless an allergy or record-number conflict is
\* reported as well, leaves diagnoses, medications and allergies safe.
C19_DateMismatch ==
  Detected =>
    /\ Len(DateMismatches(lastRequest.conflictResult))
         = Cardinality(MismatchedPairs(lastRequest.chartData.surgeries, patientRow.surgeries))
    /\ \A i \in 1..Len(DateMismatches(lastRequest.conflictResult)) :
         /\ DateMismatches(lastRequest.conflictResult)[i].severity = "warning"
         /\ \E p \in MismatchedPairs(lastRequest.chartData.surgeries, patientRow.surgeries) :
              /\ DateMismatches(lastRequest.conflictResult)[i].incoming
                   = <<lastRequest.chartData.surgeries[p[1]].date>>
              /\ DateMismatches(lastRequest.conflictResult)[i].existing
                   = <<patientRow.surgeries[p[2]].date>>
    /\ DateMismatches(lastRequest.conflictResult) # <<>>
         => ~lastRequest.conflictResult.safeToMerge.procedures
    /\ (/\ DateMismatches(lastRequest.conflictResult) = <<>>
        /\ ~HasConflictOfType(lastRequest.conflictResult, {"mrn_mismatch"}))
         => lastRequest.conflictResult.safeToMerge.procedures
    /\ (\A i \in 1..Len(lastRequest.conflictResult.conflicts) :
          lastRequest.conflictResult.conflicts[i].type = "date_mismatch")
         => /\ lastRequest.conflictResult.safeToMerge.diagnoses
            /\ lastRequest.conflictResult.safeToMerge.medications
            /\ lastRequest.conflictResult.safeToMerge.allergies

\* Left against right total knee replacement on different dates: three of
\* four words are shared and neither name contains the other
C19_Witness ==
  /\ Detected
  /\ lastRequest.chartData.surgeries = OneSurgery("2025-09-18", "Left Total Knee Replacement", DocumentId)
  /\ patientRow.surgeries = OneSurgery("2025-01-05", "Right Total Knee Replacement", 0)
  /\ Len(DateMismatches(lastRequest.conflictResult)) = 1
  /\ lastRequest.conflictResult.safeToMerge
       = [procedures |-> FALSE, diagnoses |-> TRUE, medications |-> TRUE, allergies |-> TRUE]

(***************************************************************************)
(* mergeExtractionIntoChart on its own: the patient row, or its absence,   *)
(* and the incoming data are drawn from bounded sets and one step applies  *)
(* the function                                                            *)
(***************************************************************************)
\* getPatientById finds no row
NoPatient == [missing |-> TRUE]

MedEntries(names) ==
  [i \in 1..Len(names) |-> [name |-> names[i], source_document_id |-> DocumentId]]

\* Charts before the write: every list empty, with one entry or with two
MergeCharts ==
  {[EmptyChart EXCEPT !.surgeries = s, !.problems = p, !.meds = m, !.allergies = a] :
     s \in {<<>>, OneSurgery("2025-01-05", "Knee Replacement", 0),
            OneSurgery("2025-01-05", "Knee Replacement", 0)
              \o OneSurgery(NULL, "Appendectomy", 0)},
     p \in {<<>>, <<"Severe osteoarthritis">>, <<"Severe osteoarthritis", "Chronic knee pain">>},
     m \in {<<>>, MedEntries(<<"Morphine">>)},
     a \in {<<>>, AllergyEntries(<<"NKDA">>), AllergyEntries(<<"Penicillin", "NKDA">>)}}

\* Incoming data in chart format: entries the chart may hold already, new
\* entries, and the same new entry twice
MergeInputs ==
  {[surgeries |-> s, diagnoses |-> d, medications |-> m, allergies |-> a, summary |-> <<>>] :
     s \in {<<>>, OneSurgery("2025-01-05", "Knee Replacement", DocumentId),
            OneSurgery("2025-09-18", "Knee Replacement", DocumentId)
              \o OneSurgery("2025-01-05", "Knee Replacement", DocumentId),
            OneSurgery(NULL, "Appendectomy", DocumentId)
              \o OneSurgery(NULL, "Appendectomy", DocumentId)},
     d \in {<<>>, <<"Chronic knee pain", "Severe osteoarthritis">>,
            <<"Chronic knee pain", "Chronic knee pain">>},
     m \in {<<>>, MedEntries(<<"Morphine", "Aspirin">>)},
     a \in {<<>>, AllergyEntries(<<"Penicillin">>)}}

MergeInit ==
  /\ docRow = [status |-> "none", error_message |-> NULL, file |-> NoFile]
  /\ storedExtraction = <<>>
  /\ patientRow \in MergeCharts \cup {NoPatient}
  /\ lastRequest \in {[Idle EXCEPT !.chartData = d] : d \in MergeInputs}
  /\ mergeCalls = NoCalls

\* mergeExtractionIntoChart(patientId, extractionData) applied to the drawn
\* inputs; without a patient row it rejects with 'Patient not found'
MergeIntoChart ==
  /\ lastRequest.op = "none"
  /\ IF patientRow = NoPatient
     THEN /\ lastRequest' = [lastRequest EXCEPT !.op = "merge", !.http = 500,
                                                !.before = patientRow]
          /\ UNCHANGED patientRow
     ELSE /\ patientRow' = mergeExtractionIntoChart(patientRow, lastRequest.chartData)
          /\ lastRequest' = [lastRequest EXCEPT !.op = "merge", !.http = 200,
                                                !.before = patientRow, !.merged = TRUE]
  /\ UNCHANGED <<docRow, storedExtraction>>
  /\ UNCHANGED mergeCalls

MergeNext == MergeIntoChart

SpecMerge == MergeInit /\ [][MergeNext]_vars

\* The key of an entry of a chart list: surgery date and procedures,
\* diagnosis name, medication name, allergy substance
KeyOf(column, x) ==
  CASE column = "surgeries" -> <<x.date, x.procedures>>
    [] column = "problems" -> x
    [] column = "meds" -> x.name
    [] column = "allergies" -> x.substance

\* The list of the incoming data that goes into a column of the chart
IncomingOf(chartData, column) ==
  CASE column = "surgeries" -> chartData.surgeries
    [] column = "problems" -> chartData.diagnoses
    [] column = "meds" -> chartData.medications
    [] column = "allergies" -> chartData.allergies

\* after holds the entries of before, unchanged and in their order, followed
\* by incoming entries, each with a key no entry ahead of it has
AppendedAndDeduplicated(before, after, incoming, column) ==
  /\ Len(after) >= Len(before)
  /\ SubSeq(after, 1, Len(before)) = before
  /\ \A i \in (Len(before) + 1)..Len(after) :
       /\ \E k \in 1..Len(incoming) : after[i] = incoming[k]
       /\ \A j \in 1..(i - 1) : KeyOf(column, after[j]) # KeyOf(column, after[i])

\* C20: the chart write appends and deduplicates.  After the call every
\* entry the four lists held before is still there, unchanged and in order,
\* and what was added are incoming entries whose key no entry had; without
\* a patient row the call fails and nothing is written.
C20_AppendAndDeduplicate ==
  lastRequest.op = "merge" =>
    IF lastRequest.before = NoPatient
    THEN lastRequest.http = 500 /\ patientRow = NoPatient /\ ~lastRequest.merged
    ELSE \A column \in {"surgeries", "problems", "meds", "allergies"} :
           AppendedAndDeduplicated(lastRequest.before[column], patientRow[column],
                                   IncomingOf(lastRequest.chartData, column), column)

\* A chart with two surgeries received one it holds and a new one: it now
\* holds three, the old two first
C20_Witness ==
  /\ lastRequest.op = "merge"
  /\ lastRequest.before # NoPatient
  /\ Len(lastRequest.before.surgeries) = 2
  /\ Len(lastRequest.chartData.surgeries) = 2
  /\ Len(patientRow.surgeries) = 3
  /\ Len(lastRequest.before.allergies) = 2
  /\ patientRow.allergies = lastRequest.before.allergies

(***************************************************************************)
(* computeFieldConfidence on its own: the text is drawn from the sequences *)
(* of at most MaxFieldLines lines, the extraction is what steps 2 and 3 of *)
(* the pipeline make of it, and one step applies the function              *)
(***************************************************************************)
\* Largest number of lines of a text given to computeFieldConfidence
MaxFieldLines == 2

\* The lines of those texts: a surgery date, a record number, headers that
\* hold the words procedure, allerg, discharge, medication and preoperative
\* diagnosis, a sentence with the word admitted, a medication, and a
\* sentence that holds none of the words the function looks for
FieldLineValues ==
  {Line("date", "2025-09-18"), Line("mrn", "123"),
   Line("hdr", "Procedures Performed"), Line("hdr", "Allergies"),
   Line("hdr", "Discharge Plan"), Line("hdr", "Medications"),
   Line("hdr", "Preoperative Diagnosis"),
   Line("prose", "The patient was admitted"), Line("med", "morphine"),
   Line("prose", "Follow up in two weeks")}

FieldTexts == UNION {[1..n -> FieldLineValues] : n \in 0..MaxFieldLines}

FieldsInit ==
  /\ docRow \in {[status |-> "none", error_message |-> NULL,
                   file |-> [NoFile EXCEPT !.text = t]] : t \in FieldTexts}
  /\ storedExtraction = <<>>
  /\ patientRow = EmptyChart
  /\ lastRequest = Idle
  /\ mergeCalls = NoCalls

\* computeFieldConfidence(result.pass2, textResult.text) applied to the
\* extraction of the drawn text, with and without enrichment
ComputeFieldConfidence ==
  /\ lastRequest.op = "none"
  /\ \E llm \in LLMInputs :
       \E sliceResult \in {extractWithHeaderSlice(docRow.file.text)} :
         \E pass2 \in {Pass2Of(sliceResult, Enriched(sliceResult, llm), llm)} :
           lastRequest' = [lastRequest EXCEPT
                             !.op = "fields", !.llm = llm,
                             !.result = [InitialResult EXCEPT !.pass2 = <<pass2>>],
                             !.fieldConf = computeFieldConfidence(pass2, docRow.file.text)]
  /\ UNCHANGED <<docRow, storedExtraction, patientRow>>
  /\ UNCHANGED mergeCalls

FieldsNext == ComputeFieldConfidence

SpecFieldConfidence == FieldsInit /\ [][FieldsNext]_vars

\* The fields computeFieldConfidence scores
ScoredFields ==
  {"patient_name", "mrn", "admission_date", "discharge_date", "surgery_date",
   "procedures", "preop_dx", "postop_dx", "medications", "allergies"}

\* The field of an extraction holds a value
Populated(pass2, field) ==
  CASE field = "patient_name" -> pass2.doc.patient_name # NULL
    [] field = "mrn" -> pass2.doc.mrn # NULL
    [] field = "admission_date" -> "admission_date" \in DOMAIN pass2
    [] field = "discharge_date" -> "discharge_date" \in DOMAIN pass2
    [] field = "surgery_date" -> pass2.surgery.date # NULL
    [] field = "procedures" -> pass2.surgery.procedures # <<>>
    [] field = "preop_dx" -> pass2.diagnoses.preop # <<>>
    [] field = "postop_dx" -> pass2.diagnoses.postop # <<>>
    [] field = "medications" -> pass2.medications # <<>>
    [] field = "allergies" -> pass2.allergies # <<>>

\* The words of a text that relate to a field, in lower case
RelatedKeywords(field) ==
  CASE field = "patient_name" -> {<<"n", "a", "m", "e">>, <<"p", "a", "t", "i", "e", "n", "t">>}
    [] field = "mrn" -> {<<"m", "r", "n">>, <<"r", "e", "c", "o", "r", "d">>}
    [] field = "admission_date" -> {S_admission, S_admitted}
    [] field = "discharge_date" -> {S_discharge}
    [] field = "surgery_date" -> {S_date_of_surgery, S_surgery_date}
    [] field = "procedures" -> {S_procedure, S_operation}
    [] field = "preop_dx" -> {S_preoperative_diagnosis, S_pre_operative_diagnosis}
    [] field = "postop_dx" -> {S_postoperative_diagnosis, S_post_operative_diagnosis}
    [] field = "medications" -> {S_medication, S_analgesia, S_discharge_med}
    [] field = "allergies" -> {S_allerg}

\* The text holds a word related to the field
HasCue(text, field) == \E kw \in RelatedKeywords(field) : TextIncludes(text, kw)

ReportedMissing(fieldConf, field) ==
  \E i \in 1..Len(fieldConf.missing_fields) : fieldConf.missing_fields[i] = field

\* C21 as stated: a field that is not populated and for which no related
\* keyword appears in the raw text is not in the missing-fields list of
\* computeFieldConfidence, for each of patient name, record number,
\* admission, discharge and surgery date, procedures, pre- and postoperative
\* diagnoses, medications and allergies.
C21_MissingOnlyWithCue ==
  lastRequest.op = "fields" =>
    \A field \in ScoredFields :
       (~Populated(lastRequest.result.pass2[1], field) /\ ~HasCue(docRow.file.text, field))
         => ~ReportedMissing(lastRequest.fieldConf, field)

(***************************************************************************)
(* Medication filtering and scoring                                        *)
(***************************************************************************)
\* The medication list before filtering: what the slicer found, else what
\* the enrichment service answered
OfferedMedications ==
  IF Deterministic.medications # <<>> THEN Deterministic.medications
  ELSE IF lastRequest.llm.available THEN lastRequest.llm.meds
  ELSE <<>>

\* C22 as stated: in every run of the pipeline, the medication list that is
\* scored, stored and merged holds no entry that matches a side-effect or
\* non-drug phrase and no entry longer than the maximum word count,
\* entries of the enrichment service included, and every entry that was
\* removed is recorded as an info-level issue.
C22_MedicationsFilteredBeforeScoring ==
  ProcessedPastGate =>
    /\ \A i \in 1..Len(lastRequest.result.pass2[1].medications) :
          ~InvalidMedication(lastRequest.result.pass2[1].medications[i])
    /\ \A name \in Range(OfferedMedications) :
          InvalidMedication(name) =>
            \E i \in 1..Len(lastRequest.result.validation[1].issues) :
               /\ lastRequest.result.validation[1].issues[i].severity = "info"
               /\ lastRequest.result.validation[1].issues[i].message = name
    /\ lastRequest.result.confidence = computeConfidence(lastRequest.result.pass2[1])

(***************************************************************************)
(* checkInvariants on its own: the anchors of the first pass, the          *)
(* extraction of the second pass and the raw text are drawn from bounded   *)
(* sets and one step applies the function                                  *)
(***************************************************************************)
\* Largest number of entries of a medication list given to checkInvariants
MaxCheckedMeds == 2

\* Entries of those lists: two drug names, two side effects, and an
\* instruction of eight words
CheckedMedNames ==
  {"Aspirin", "Morphine", "Drowsiness", "Nausea and vomiting",
   "Take one tablet by mouth every six hours"}

CheckedMedLists == UNION {[1..n -> CheckedMedNames] : n \in 0..MaxCheckedMeds}

\* Raw texts: with and without a surgery date, the sentinel as a word and
\* as a phrase with and without 'drug', a phrase about food allergies, and
\* an 'allergic to' phrase
CheckedTexts ==
  {<<>>,
   <<Line("date", "2025-09-18")>>,
   <<Line("nkda", "NKDA")>>,
   <<Line("date", "2025-09-18"), Line("noknown", "No known drug allergies")>>,
   <<Line("noknown", "NO KNOWN ALLERGIES")>>,
   <<Line("noknown", "No known food allergies")>>,
   <<Line("allergic", "Penicillin")>>}

\* Anchors of the first pass: none, every section, the procedures section
CheckedAnchors ==
  {NoAnchors,
   [anchors |-> [date_of_surgery |-> TRUE, has_procedures_section |-> TRUE,
                 has_preop_dx_section |-> TRUE, has_postop_dx_section |-> TRUE]],
   [anchors |-> [date_of_surgery |-> FALSE, has_procedures_section |-> TRUE,
                 has_preop_dx_section |-> FALSE, has_postop_dx_section |-> FALSE]]}

\* Extractions of the second pass
CheckedExtractions ==
  {[EmptyExtraction EXCEPT
      !.surgery.procedures = procedures,
      !.surgery.has_surgery = Len(procedures) > 0,
      !.diagnoses.preop = preop,
      !.allergies = allergies,
      !.medications = medications] :
     procedures \in {<<>>, <<"Appendectomy">>},
     preop \in {<<>>, <<"Chronic knee pain">>},
     allergies \in {<<>>, <<"Penicillin">>, <<"NKDA">>},
     medications \in CheckedMedLists}

InvariantsInit ==
  /\ docRow \in {[status |-> "none", error_message |-> NULL,
                   file |-> [NoFile EXCEPT !.text = t]] : t \in CheckedTexts}
  /\ storedExtraction = <<>>
  /\ patientRow = EmptyChart
  /\ lastRequest \in {[Idle EXCEPT !.pass1 = a, !.result.pass2 = <<e>>] :
                        a \in CheckedAnchors, e \in CheckedExtractions}
  /\ mergeCalls = NoCalls

\* checkInvariants(pass1Result, pass2Result, rawText) applied to the drawn
\* inputs: the report and the extraction as the call leaves it
CheckInvariants ==
  /\ lastRequest.op = "none"
  /\ lastRequest' = [lastRequest EXCEPT
                       !.op = "check",
                       !.checked = <<checkInvariants(lastRequest.pass1, lastRequest.result.pass2[1],
                                                     docRow.file.text)>>]
  /\ UNCHANGED <<docRow, storedExtraction, patientRow>>
  /\ UNCHANGED mergeCalls

InvariantsNext == CheckInvariants

SpecInvariants == InvariantsInit /\ [][InvariantsNext]_vars

\* The raw text holds the word NKDA or the phrase no known (drug) allergies
SaysNoKnownAllergies(text) ==
  \E i \in 1..Len(text) :
     text[i] \in {Line("nkda", "NKDA"), Line("noknown", "No known drug allergies"),
                  Line("noknown", "NO KNOWN ALLERGIES")}

\* The allergy list after the call: the sentinel exactly when the list was
\* empty and the text says no known allergies, else the list as it was
AllergiesAutoCorrected ==
  lastRequest.checked[1].pass2.allergies =
    IF lastRequest.result.pass2[1].allergies = <<>> /\ SaysNoKnownAllergies(docRow.file.text)
    THEN <<"NKDA">>
    ELSE lastRequest.result.pass2[1].allergies

\* C23 as stated: after checkInvariants every field of the extraction is
\* what it was, except that allergies is the single NKDA sentinel exactly
\* when the allergy list was empty and the raw text says NKDA or no known
\* allergies.
C23_AsStated ==
  lastRequest.op = "check" =>
    /\ [lastRequest.checked[1].pass2 EXCEPT !.allergies = lastRequest.result.pass2[1].allergies]
         = lastRequest.result.pass2[1]
    /\ AllergiesAutoCorrected

\* The side-effect and instruction entries of the drawn lists
SideEffectOrTooLong(name) ==
  name \in {"Drowsiness", "Nausea and vomiting", "Take one tablet by mouth every six hours"}

\* C23: after checkInvariants every field of the extraction other than
\* allergies and medications is what it was; allergies is the single NKDA
\* sentinel exactly when the allergy list was empty and the raw text says
\* NKDA or no known allergies, so a non-empty list is never replaced; and
\* medications is the list as it was without its side-effect entries and
\* its entries of more than six words, in the same order.
C23_OnlyAllowedMutations ==
  lastRequest.op = "check" =>
    /\ [lastRequest.checked[1].pass2 EXCEPT
          !.allergies = lastRequest.result.pass2[1].allergies,
          !.medications = lastRequest.result.pass2[1].medications]
         = lastRequest.result.pass2[1]
    /\ AllergiesAutoCorrected
    /\ lastRequest.result.pass2[1].allergies # <<>>
         => lastRequest.checked[1].pass2.allergies = lastRequest.result.pass2[1].allergies
    /\ lastRequest.checked[1].pass2.medications
         = SelectSeq(lastRequest.result.pass2[1].medications,
                     LAMBDA name : ~SideEffectOrTooLong(name))

\* An extraction without allergies and with a side effect between two drug
\* names was checked against a text that says no known drug allergies: the
\* call set the sentinel and removed the side effect
C23_Witness ==
  /\ lastRequest.op = "check"
  /\ SaysNoKnownAllergies(docRow.file.text)
  /\ lastRequest.result.pass2[1].allergies = <<>>
  /\ lastRequest.result.pass2[1].medications = <<"Drowsiness", "Aspirin">>
  /\ lastRequest.checked[1].pass2.allergies = <<"NKDA">>
  /\ lastRequest.checked[1].pass2.medications = <<"Aspirin">>

(***************************************************************************)
(* extractNumberedList on its own: the section body is drawn from the      *)
(* sequences of at most MaxListLines lines and one step applies the        *)
(* function                                                                *)
(***************************************************************************)
\* Largest number of lines of a section body
MaxListLines == 3

\* The lines of the bodies: an item numbered with a dot, one numbered with
\* a parenthesis, a bulleted item, an indented detail line with a dash, an
\* indented line, a short line that starts in lower case, and a blank line
ListLineValues ==
  {Line("num", "Arthroscopy"), Line("numparen", "Appendectomy"),
   Line("star", "Meniscectomy"), Line("subbullet", "tolerated well"),
   Line("indent", "of the left knee"), Line("lower", "with cement fixation"),
   Line("blank", "")}

ListBodies == UNION {[1..n -> ListLineValues] : n \in 0..MaxListLines}

ListInit ==
  /\ docRow \in {[status |-> "none", error_message |-> NULL,
                   file |-> [NoFile EXCEPT !.text = t]] : t \in ListBodies}
  /\ storedExtraction = <<>>
  /\ patientRow = EmptyChart
  /\ lastRequest = Idle
  /\ mergeCalls = NoCalls

\* extractNumberedList(block) applied to the drawn body
ExtractNumberedList ==
  /\ lastRequest.op = "none"
  /\ lastRequest' = [lastRequest EXCEPT !.op = "list",
                                        !.items = extractNumberedList(docRow.file.text)]
  /\ UNCHANGED <<docRow, storedExtraction, patientRow>>
  /\ UNCHANGED mergeCalls

ListNext == ExtractNumberedList

SpecList == ListInit /\ [][ListNext]_vars

\* Every line of the body is a numbered item line
OnlyNumberedItems(body) ==
  body # <<>> /\ \A i \in 1..Len(body) : body[i].k \in {"num", "numparen"}

\* C24: for every section body made of numbered item lines, with "." or
\* ")" markers, extractNumberedList returns exactly the item texts, one per
\* line, in the order of the lines.
C24_NumberedItemsInOrder ==
  (lastRequest.op = "list" /\ OnlyNumberedItems(docRow.file.text))
    => lastRequest.items = [i \in 1..Len(docRow.file.text) |-> docRow.file.text[i].v]

\* A body of three item lines, the second with a parenthesis, gave three
\* items
C24_Witness ==
  /\ lastRequest.op = "list"
  /\ docRow.file.text = <<Line("num", "Arthroscopy"), Line("numparen", "Appendectomy"),
                          Line("num", "Arthroscopy")>>
  /\ lastRequest.items = <<"Arthroscopy", "Appendectomy", "Arthroscopy">>

\* The items of a body as described: a numbered or bulleted marker line
\* starts an item, an indented line or a short line in lower case is
\* appended to the item before it, and a detail line is left out
RECURSIVE ItemsAsDescribed(_)
ItemsAsDescribed(body) ==
  IF body = <<>> THEN <<>>
  ELSE LET before == ItemsAsDescribed(SubSeq(body, 1, Len(body) - 1))
           line == body[Len(body)]
       IN  IF line.k \in {"num", "numparen", "star"} THEN Append(before, line.v)
           ELSE IF line.k \in {"indent", "lower"} /\ before # <<>>
           THEN [before EXCEPT ![Len(before)] = @ \o " " \o line.v]
           ELSE before

\* The first line of the body that is not blank is a marker line
StartsWithMarker(body) ==
  \E i \in 1..Len(body) :
     /\ body[i].k \in {"num", "numparen", "star"}
     /\ \A j \in 1..(i - 1) : body[j].k = "blank"

\* C25 as stated: for every sequence of lines, each top-level numbered or
\* bullet marker line starts a new item, a continuation line (indented, or
\* short and not starting with a capital letter) is appended to the current
\* item, and a sub-bullet line is dropped without terminating the item; an
\* item ends only at the next marker line or at the end of the section.
C25_ItemsEndAtMarkers ==
  (lastRequest.op = "list" /\ StartsWithMarker(docRow.file.text))
    => lastRequest.items = ItemsAsDescribed(docRow.file.text)

(***************************************************************************)
(* extractMedications on its own: the three layers over texts that name a  *)
(* drug in a sentence, in a parenthetical and after "Scheduled", in        *)
(* several capitalisations                                                 *)
(***************************************************************************)
MaxMedLines == 2

MedSpellings == {"morphine", "Morphine", "MORPHINE", "aspirin", "Aspirin", "acetaminophen"}

MedLineValues ==
  {Line(k, v) : k \in DrugLineKinds, v \in MedSpellings}
    \cup {Line("prose", "The patient was admitted")}

MedTexts == UNION {[1..n -> MedLineValues] : n \in 0..MaxMedLines}

MedsInit ==
  /\ docRow \in {[status |-> "none", error_message |-> NULL,
                   file |-> [NoFile EXCEPT !.text = t]] : t \in MedTexts}
  /\ storedExtraction = <<>>
  /\ patientRow = EmptyChart
  /\ lastRequest = Idle
  /\ mergeCalls = NoCalls

\* extractMedications(text) applied to the drawn text
ExtractMedications ==
  /\ lastRequest.op = "none"
  /\ lastRequest' = [lastRequest EXCEPT !.op = "medications",
                                        !.items = extractMedications(docRow.file.text)]
  /\ UNCHANGED <<docRow, storedExtraction, patientRow>>
  /\ UNCHANGED mergeCalls

MedsNext == ExtractMedications

SpecMeds == MedsInit /\ [][MedsNext]_vars

\* C26: the list returned by extractMedications holds no two entries that
\* are equal when compared case-insensitively, whichever layers produced
\* them and however the names are capitalised in the text.
C26_MedicationsCaseInsensitive ==
  lastRequest.op = "medications" =>
    \A i, j \in 1..Len(lastRequest.items) :
      i # j => toLowerCase(lastRequest.items[i]) # toLowerCase(lastRequest.items[j])

(***************************************************************************)
(* extractWithHeaderSlice on a text that opens with a header of the        *)
(* vocabulary, in every spelling, followed by a short body                 *)
(***************************************************************************)
MaxHeaderBody == 1

HeaderBodyLines ==
  {Line("num", "Severe osteoarthritis"), Line("prose", "The patient was admitted"),
   Line("blank", "")}

HeaderBodies == UNION {[1..n -> HeaderBodyLines] : n \in 0..MaxHeaderBody}

HeaderTexts ==
  {<<Line(k, h)>> \o body : k \in {"hdr", "hdrlc"}, h \in HeaderSet, body \in HeaderBodies}

HeadersInit ==
  /\ docRow \in {[status |-> "none", error_message |-> NULL,
                   file |-> [NoFile EXCEPT !.text = t]] : t \in HeaderTexts}
  /\ storedExtraction = <<>>
  /\ patientRow = EmptyChart
  /\ lastRequest = Idle
  /\ mergeCalls = NoCalls

\* extractWithHeaderSlice(text) applied to the drawn text
ExtractWithHeaderSlice ==
  /\ lastRequest.op = "none"
  /\ lastRequest' = [lastRequest EXCEPT !.op = "headers",
                                        !.slice = <<extractWithHeaderSlice(docRow.file.text)>>]
  /\ UNCHANGED <<docRow, storedExtraction, patientRow>>
  /\ UNCHANGED mergeCalls

HeadersNext == ExtractWithHeaderSlice

SpecHeaders == HeadersInit /\ [][HeadersNext]_vars

\* The characters without the hyphens
RECURSIVE Unhyphenated(_)
Unhyphenated(cs) ==
  IF cs = <<>> THEN <<>>
  ELSE IF Head(cs) = "-" THEN Unhyphenated(Tail(cs))
  ELSE <<Head(cs)>> \o Unhyphenated(Tail(cs))

\* g is the unhyphenated spelling of header h (or h itself)
UnhyphenatedSpelling(h, g) ==
  ToLower(Spell[g]) = Unhyphenated(ToLower(Spell[h]))

\* C27: every spelling of a header maps to the canonical key of its
\* section: a header has the key of its unhyphenated spelling
\* (preop_diagnoses, postop_diagnoses, postop_course for the hyphenated
\* "Pre-Operative ..." and "Post-Operative ..." headers), and a text that
\* opens with a diagnoses header of any spelling and yields an empty list
\* has the violation of that section.
C27_SpellingsShareKey ==
  lastRequest.op = "headers" =>
    LET h == docRow.file.text[1].v
        out == lastRequest.slice[1]
    IN  \A g \in HeaderSet :
          UnhyphenatedSpelling(h, g) =>
            /\ normalizeHeaderKey(h) = normalizeHeaderKey(g)
            /\ (/\ normalizeHeaderKey(g) = S_preop_diagnoses
                /\ out.extraction.diagnoses.preop = <<>>)
                 => "preop" \in Range(out.violations)
            /\ (/\ normalizeHeaderKey(g) = S_postop_diagnoses
                /\ out.extraction.diagnoses.postop = <<>>)
                 => "postop" \in Range(out.violations)

(***************************************************************************)
(* Concurrent mergeExtractionIntoChart calls for one patient.  A call      *)
(* awaits getPatientById, computes the four lists from the row it read     *)
(* and issues one UPDATE that writes the lists whole; the database runs    *)
(* the statements of the calls one at a time, in any order that keeps each *)
(* call's SELECT ahead of its UPDATE.                                      *)
(***************************************************************************)
\* Number of calls in flight
MergeCallers == 2

\* What the calls merge: full reports of two operations, a report with a
\* surgery only, and a report with nothing in it
ConcurrentInputs ==
  {[surgeries |-> OneSurgery("2025-01-05", "Knee Replacement", DocumentId),
    diagnoses |-> <<"Severe osteoarthritis">>,
    medications |-> MedEntries(<<"Morphine">>),
    allergies |-> AllergyEntries(<<"Penicillin">>), summary |-> <<>>],
   [surgeries |-> OneSurgery("2025-09-18", "Appendectomy", DocumentId),
    diagnoses |-> <<"Chronic knee pain">>,
    medications |-> MedEntries(<<"Aspirin">>),
    allergies |-> <<>>, summary |-> <<>>],
   [EmptyChartData EXCEPT !.surgeries = OneSurgery("2025-01-05", "Knee Replacement", DocumentId)],
   EmptyChartData}

ConcurrentCharts ==
  {EmptyChart, [EmptyChart EXCEPT !.problems = <<"Severe osteoarthritis">>]}

ConcurrentInit ==
  /\ docRow = [status |-> "none", error_message |-> NULL, file |-> NoFile]
  /\ storedExtraction = <<>>
  /\ patientRow \in ConcurrentCharts
  /\ lastRequest = Idle
  /\ mergeCalls \in [1..MergeCallers ->
                       {[pc |-> "start", data |-> d, read |-> EmptyChart] : d \in ConcurrentInputs}]

\* const patient = await getPatientById(patientId): the SELECT of call c runs
MergeRead(c) ==
  /\ mergeCalls[c].pc = "start"
  /\ mergeCalls' = [mergeCalls EXCEPT ![c].pc = "read", ![c].read = patientRow]
  /\ UNCHANGED <<docRow, storedExtraction, patientRow, lastRequest>>

\* The UPDATE statement: the four *_json columns are set to the lists the
\* call computed from the row it read; chart_summary is appended to by the
\* statement itself, on the row as it is.
MergeUpdate(row, patient, extractionData) ==
  [row EXCEPT
     !.surgeries = mergeExtractionIntoChart(patient, extractionData).surgeries,
     !.problems = mergeExtractionIntoChart(patient, extractionData).problems,
     !.meds = mergeExtractionIntoChart(patient, extractionData).meds,
     !.allergies = mergeExtractionIntoChart(patient, extractionData).allergies,
     !.chart_summary = IF extractionData.summary # <<>>
                       THEN Append(@, extractionData.summary) ELSE @]

\* db.run(sql, [...]): the UPDATE of call c runs and the call resolves
MergeWrite(c) ==
  /\ mergeCalls[c].pc = "read"
  /\ patientRow' = MergeUpdate(patientRow, mergeCalls[c].read, mergeCalls[c].data)
  /\ mergeCalls' = [mergeCalls EXCEPT ![c].pc = "done"]
  /\ UNCHANGED <<docRow, storedExtraction, lastRequest>>

ConcurrentNext ==
  \E c \in 1..MergeCallers : MergeRead(c) \/ MergeWrite(c)

SpecConcurrent == ConcurrentInit /\ [][ConcurrentNext]_vars

\* The chart holds, in the column, an entry with the key of every entry
\* of the incoming list
Contributed(chart, chartData, column) ==
  \A k \in 1..Len(IncomingOf(chartData, column)) :
    \E i \in 1..Len(chart[column]) :
      KeyOf(column, chart[column][i]) = KeyOf(column, IncomingOf(chartData, column)[k])

\* C28: no lost update between concurrent merges.  When all calls for the
\* patient have completed, in whatever order their steps ran, the stored
\* surgeries, problem list, medications and allergies hold every entry
\* contributed by every call.
C28_NoLostUpdate ==
  (\A c \in 1..MergeCallers : mergeCalls[c].pc = "done") =>
    \A c \in 1..MergeCallers :
      \A column \in {"surgeries", "problems", "meds", "allergies"} :
        Contributed(patientRow, mergeCalls[c].data, column)

(***************************************************************************)
(* mergeExtractionIntoChart applied again with the same data, as when a    *)
(* document is processed and then approved, or processed twice             *)
(***************************************************************************)
\* Largest number of times the same data is merged
MaxApplications == 2

\* Chart-format data with and without a summary
RemergeInputs ==
  {[surgeries |-> s, diagnoses |-> d, medications |-> m, allergies |-> a, summary |-> sm] :
     s \in {<<>>, OneSurgery("2025-01-05", "Knee Replacement", DocumentId),
            OneSurgery(NULL, "Appendectomy", DocumentId)},
     d \in {<<>>, <<"Chronic knee pain", "Severe osteoarthritis">>},
     m \in {<<>>, MedEntries(<<"Morphine", "Aspirin">>)},
     a \in {<<>>, AllergyEntries(<<"Penicillin">>)},
     sm \in {<<>>, buildSummary(<<Line("prose", "The patient was admitted")>>)}}

RemergeInit ==
  /\ docRow = [status |-> "none", error_message |-> NULL, file |-> NoFile]
  /\ storedExtraction = <<>>
  /\ patientRow \in InitialCharts
  /\ lastRequest \in {[Idle EXCEPT !.chartData = d] : d \in RemergeInputs}
  /\ mergeCalls = NoCalls

\* mergeExtractionIntoChart(patientId, extractionData) with the data of the
\* call before; statusLog counts the calls
MergeAgain ==
  /\ Len(lastRequest.statusLog) < MaxApplications
  /\ patientRow' = mergeExtractionIntoChart(patientRow, lastRequest.chartData)
  /\ lastRequest' = [lastRequest EXCEPT !.op = "merge", !.http = 200,
                                        !.before = patientRow, !.merged = TRUE,
                                        !.statusLog = Append(@, "merged")]
  /\ UNCHANGED <<docRow, storedExtraction, mergeCalls>>

RemergeNext == MergeAgain

SpecRemerge == RemergeInit /\ [][RemergeNext]_vars

\* C29: merging is idempotent.  After the same chart-format data has been
\* merged a second time the whole chart (surgeries, problem list,
\* medications, allergies and chart_summary) equals the chart after the
\* first merge.
C29_MergeIdempotent ==
  Len(lastRequest.statusLog) >= 2 => patientRow = lastRequest.before

(***************************************************************************)
(* The result of processDocumentSafe as the process request receives it    *)
(***************************************************************************)
\* C30: every result returned by processDocumentSafe is internally
\* consistent.  status is one of extracted, needs_review, error; a result
\* that can merge has status extracted, success, no needsReview and a score
\* of at least 0.60; status needs_review comes with needsReview, without
\* canMerge and with at least one review reason; status error comes without
\* canMerge and with an error message.
C30_ResultConsistent ==
  lastRequest.op = "process" =>
    /\ lastRequest.result.status \in {"extracted", "needs_review", "error"}
    /\ lastRequest.result.canMerge =>
         /\ lastRequest.result.status = "extracted"
         /\ lastRequest.result.success
         /\ ~lastRequest.result.needsReview
         /\ lastRequest.result.confidence >= CONFIDENCE_REVIEW_RECOMMENDED
    /\ lastRequest.result.status = "needs_review" =>
         /\ lastRequest.result.needsReview
         /\ ~lastRequest.result.canMerge
         /\ Len(lastRequest.result.reviewReasons) >= 1
    /\ lastRequest.result.status = "error" =>
         /\ ~lastRequest.result.canMerge
         /\ lastRequest.result.error # NULL

\* A text that was read and sliced scored below 0.60: the result asks for
\* review, carries the reason and cannot merge
C30_Witness ==
  /\ lastRequest.op = "process"
  /\ lastRequest.result.success
  /\ lastRequest.result.pass2 # <<>>
  /\ lastRequest.result.confidence < CONFIDENCE_REVIEW_RECOMMENDED
  /\ lastRequest.result.status = "needs_review"
  /\ lastRequest.result.needsReview
  /\ ~lastRequest.result.canMerge
  /\ "Confidence too low" \in Range(lastRequest.result.reviewReasons)

====
